---- MODULE Spec2Model ----
(***************************************************************************)
(* Property mass matrices of SimPEG/base/pde_simulation.py: the lazily     *)
(* stashed forward / inverse / derivative matrices that the decorators     *)
(* with_property_mass_matrices, with_surface_property_mass_matrices and    *)
(* with_line_property_mass_matrices add to a simulation class, and their   *)
(* invalidation by __setattr__ and deleteTheseOnModelUpdate.               *)
(*                                                                         *)
(* One simulation object is modelled.  Its class (cls) is fixed at         *)
(* construction; its attribute dictionary is the partial function `cache`  *)
(* (stash name -> matrix), so hasattr is membership in DOMAIN cache and    *)
(* delattr is removal from the domain.                                     *)
(***************************************************************************)
EXTENDS Integers, Sequences, FiniteSets, TLC

VARIABLES cls, val, pmap, model, cache, ret, src

vars == <<cls, val, pmap, model, cache, ret, src>>

(***************************************************************************)
(* Sentinels.                                                              *)
(***************************************************************************)
\* Python None for an array-valued attribute (no array is empty) and for a map.
None == <<>>
NoMap == "None"
\* no source object has been made
NoSrc == [made |-> FALSE, type |-> "Dipole",
          current |-> [t |-> "NoneType", num |-> <<0, 1>>, s |-> ""],
          receiver_list |-> <<>>, rxOrder |-> {}, locations |-> <<>>,
          q |-> [t |-> "None", nd |-> 0, a |-> <<>>]]

(***************************************************************************)
(* Exact rational arithmetic standing for the float arithmetic of numpy:   *)
(* a number is <<n, d>> with d >= 0, in lowest terms.  d = 0 is the IEEE   *)
(* result of a division by zero (<<1,0>> inf, <<-1,0>> -inf, <<0,0>> nan). *)
(***************************************************************************)
Abs(x) == IF x < 0 THEN -x ELSE x

Sgn(x) == IF x < 0 THEN -1 ELSE IF x > 0 THEN 1 ELSE 0

RECURSIVE Gcd(_, _)
Gcd(a, b) == IF b = 0 THEN a ELSE Gcd(b, a % b)

Norm(q) ==
    IF q[2] = 0 THEN <<Sgn(q[1]), 0>>
    ELSE LET g == Gcd(Abs(q[1]), Abs(q[2]))
             s == Sgn(q[2])
         IN  <<(s * q[1]) \div g, (s * q[2]) \div g>>

R(n) == <<n, 1>>

RAdd(a, b) ==
    IF a[2] = 0 /\ b[2] = 0
    THEN (IF a[1] = b[1] THEN a ELSE <<0, 0>>)
    ELSE Norm(<<a[1] * b[2] + b[1] * a[2], a[2] * b[2]>>)

RMul(a, b) == Norm(<<a[1] * b[1], a[2] * b[2]>>)

RNeg(a) == <<-a[1], a[2]>>

\* 1.0 / a
RInv(a) ==
    IF a[2] = 0 THEN (IF a[1] = 0 THEN <<0, 0>> ELSE <<0, 1>>)
    ELSE IF a[1] = 0 THEN <<1, 0>>
    ELSE Norm(<<a[2], a[1]>>)

(***************************************************************************)
(* Arrays are sequences of rationals, matrices sequences of rows.          *)
(***************************************************************************)
VMul(x, y) == [i \in 1..Len(x) |-> RMul(x[i], y[i])]

VInv(x) == [i \in 1..Len(x) |-> RInv(x[i])]

VNeg(x) == [i \in 1..Len(x) |-> RNeg(x[i])]

Ones(n) == [i \in 1..n |-> R(1)]

RECURSIVE RSum(_, _)
RSum(x, n) == IF n = 0 THEN R(0) ELSE RAdd(RSum(x, n - 1), x[n])

Dot(x, y) == RSum(VMul(x, y), Len(x))

NCols(A) == IF Len(A) = 0 THEN 0 ELSE Len(A[1])

Col(A, j) == [i \in 1..Len(A) |-> A[i][j]]

Transpose(A) == [j \in 1..NCols(A) |-> Col(A, j)]

MatVec(A, x) == [i \in 1..Len(A) |-> Dot(A[i], x)]

MatMul(A, B) == [i \in 1..Len(A) |-> [j \in 1..NCols(B) |-> Dot(A[i], Col(B, j))]]

MatAdd(A, B) == [i \in 1..Len(A) |-> [j \in 1..NCols(A) |-> RAdd(A[i][j], B[i][j])]]

\* scipy.sparse.diags(x)
Diags(x) == [i \in 1..Len(x) |-> [j \in 1..Len(x) |-> IF i = j THEN x[i] ELSE R(0)]]

Diagonal(A) == [i \in 1..Len(A) |-> A[i][i]]

\* discretize.utils.sdinv: the inverse of a diagonal matrix
sdinv(A) == Diags(VInv(Diagonal(A)))

(***************************************************************************)
(* The mesh (external capability).  A 1-D tensor mesh with NCells cells of *)
(* widths 1, 2, ..: nodes and faces coincide, edges lie along the cells.   *)
(***************************************************************************)
NCells == 2

n_cells == NCells
n_nodes == NCells + 1
n_faces == NCells + 1
n_edges == NCells

cell_volumes == [i \in 1..n_cells |-> R(i)]

face_areas == Ones(n_faces)

edge_lengths == cell_volumes

\* nodes -> cell centres, n_cells x n_nodes
aveN2CC == [i \in 1..n_cells |-> [j \in 1..n_nodes |->
               IF j = i \/ j = i + 1 THEN <<1, 2>> ELSE R(0)]]

aveF2CC == aveN2CC

\* mesh.get_face_inner_product(model=prop, invert_matrix=invert)
get_face_inner_product(prop, invert) ==
    LET w == MatVec(Transpose(aveF2CC), VMul(cell_volumes, prop))
    IN  IF invert THEN Diags(VInv(w)) ELSE Diags(w)

\* mesh.get_edge_inner_product(model=prop, invert_matrix=invert)
get_edge_inner_product(prop, invert) ==
    LET w == VMul(cell_volumes, prop)
    IN  IF invert THEN Diags(VInv(w)) ELSE Diags(w)

\* mesh.get_face_inner_product_deriv(np.ones(n_cells))(np.ones(n_faces))
get_face_inner_product_deriv ==
    MatMul(Diags(Ones(n_faces)), MatMul(Transpose(aveF2CC), Diags(cell_volumes)))

\* mesh.get_edge_inner_product_deriv(np.ones(n_cells))(np.ones(n_edges))
get_edge_inner_product_deriv ==
    MatMul(Diags(Ones(n_edges)), Diags(cell_volumes))

\* mesh.get_face_inner_product_surface(model=prop, invert_matrix=invert):
\* prop is a conductance per face
get_face_inner_product_surface(prop, invert) ==
    LET w == VMul(face_areas, prop)
    IN  IF invert THEN Diags(VInv(w)) ELSE Diags(w)

\* mesh.get_edge_inner_product_surface(model=prop, invert_matrix=invert):
\* the faces' conductance averaged onto the edges
get_edge_inner_product_surface(prop, invert) ==
    LET w == MatVec(aveF2CC, VMul(face_areas, prop))
    IN  IF invert THEN Diags(VInv(w)) ELSE Diags(w)

\* mesh.get_face_inner_product_surface_deriv(np.ones(n_faces))(np.ones(n_faces))
get_face_inner_product_surface_deriv ==
    MatMul(Diags(Ones(n_faces)), Diags(face_areas))

\* mesh.get_edge_inner_product_surface_deriv(np.ones(n_faces))(np.ones(n_edges))
get_edge_inner_product_surface_deriv ==
    MatMul(Diags(Ones(n_edges)), MatMul(aveF2CC, Diags(face_areas)))

\* mesh.get_edge_inner_product_line(model=prop, invert_matrix=invert):
\* prop is a conductance per edge
get_edge_inner_product_line(prop, invert) ==
    LET w == VMul(edge_lengths, prop)
    IN  IF invert THEN Diags(VInv(w)) ELSE Diags(w)

\* mesh.get_edge_inner_product_line_deriv(np.ones(n_edges))(np.ones(n_edges))
get_edge_inner_product_line_deriv ==
    MatMul(Diags(Ones(n_edges)), Diags(edge_lengths))

(***************************************************************************)
(* The property layer (props.Invertible / props.Reciprocal) and the model  *)
(* of BaseSimulation: a property is read from its stored array, else from  *)
(* its map applied to the model, else as the reciprocal of its partner.    *)
(***************************************************************************)
Classes == {"Electrical", "Magnetic", "Conductance"}

PropsOf(c) ==
    IF c = "Electrical" THEN {"sigma", "rho"}
    ELSE IF c = "Magnetic" THEN {"mu", "mui"}
    ELSE {"sigma", "rho", "tau", "kappa", "kappai"}

AllProps == {"sigma", "rho", "mu", "mui", "tau", "kappa", "kappai"}

\* arg = property_name.lower(); arg = arg[0].upper() + arg[1:]
Capitalize(p) ==
    CASE p = "sigma" -> "Sigma" [] p = "rho" -> "Rho" [] p = "mu" -> "Mu"
      [] p = "mui" -> "Mui" [] p = "tau" -> "Tau" [] p = "kappa" -> "Kappa"
      [] p = "kappai" -> "Kappai"

\* arg.lower()
Lower(arg) == CHOOSE p \in AllProps : Capitalize(p) = arg

\* props.Reciprocal(sigma, rho), (mu, mui), (kappa, kappai)
HasReciprocal(p) == p # "tau"

Reciprocal(p) ==
    CASE p = "sigma" -> "rho" [] p = "rho" -> "sigma" [] p = "mu" -> "mui"
      [] p = "mui" -> "mu" [] p = "kappa" -> "kappai" [] p = "kappai" -> "kappa"

PropLen(p) ==
    IF p = "tau" THEN n_faces ELSE IF p \in {"kappa", "kappai"} THEN n_edges ELSE n_cells

ArrayA(n) == [i \in 1..n |-> R(i)]
ArrayB(n) == [i \in 1..n |-> R(2)]
Zeros(n) == [i \in 1..n |-> R(0)]

\* the arrays a property is assigned; kappa = 0. is the constructor's default
Values(p) ==
    IF p = "kappa" THEN {Zeros(PropLen(p)), ArrayA(PropLen(p))}
    ELSE IF p \in {"rho", "mui", "kappai"} THEN {ArrayB(PropLen(p))}
    ELSE {ArrayA(PropLen(p)), ArrayB(PropLen(p))}

Models == {ArrayA(n_cells), ArrayB(n_cells)}

\* the maps a property is given: the identity, and twice the identity
Maps == {"IdentityMap", "ScaleMap"}

\* the maps handed to the constructor
InitMaps == {"IdentityMap"}

\* the matrix of the (linear) map of property p: the identity on the cells
\* or edges (for tau the cell's model value taken on to its faces), times
\* the map's factor
MapMatrix(p) ==
    [i \in 1..PropLen(p) |-> [j \in 1..n_cells |->
        IF j = (IF i > n_cells THEN n_cells ELSE i)
        THEN (IF pmap[p] = "ScaleMap" THEN R(2) ELSE R(1))
        ELSE R(0)]]

Fail == [ok |-> FALSE, v |-> None]
Ok(x) == [ok |-> TRUE, v |-> x]

\* getattr(self, "<p>Map"), read from the simulation's state
MapOf(p) == pmap[p]

Mapped(p) ==
    IF model = None THEN Fail ELSE Ok(MatVec(MapMatrix(p), model))

\* getattr(self, "<p>"): the stored array, else map * model, else 1 / partner
Prop(p) ==
    IF val[p] # None THEN Ok(val[p])
    ELSE IF pmap[p] # NoMap THEN Mapped(p)
    ELSE IF HasReciprocal(p)
    THEN LET q == Reciprocal(p)
             r == IF val[q] # None THEN Ok(val[q])
                  ELSE IF pmap[q] # NoMap THEN Mapped(q) ELSE Fail
         IN  IF r.ok THEN Ok(VInv(r.v)) ELSE Fail
    ELSE Fail

\* getattr(self, "<p>Deriv") for a mapped property: map.deriv(model)
PropDeriv(p) ==
    IF model = None THEN Fail ELSE Ok(MapMatrix(p))

(***************************************************************************)
(* Stash names and the stash.  f"_Mcc_{arg}" is <<"_Mcc_", arg, "">>,      *)
(* f"_Mcc_{arg}_deriv" is <<"_Mcc_", arg, "_deriv">>.                      *)
(***************************************************************************)
Stash(prefix, arg) == <<prefix, arg, "">>
StashDeriv(prefix, arg) == <<prefix, arg, "_deriv">>

\* hasattr(self, name)
hasattr(c, name) == name \in DOMAIN c

\* setattr(self, name, M)
setattr(c, name, M) == [n \in DOMAIN c \cup {name} |-> IF n = name THEN M ELSE c[n]]

\* for mat in names: if hasattr(self, mat): delattr(self, mat)
delattrs(c, names) == [n \in DOMAIN c \ names |-> c[n]]

\* the result of a getter: the stash after the call, what it returns or that
\* it raised, and whether the call built the returned object
Raised(c) == [c |-> c, ok |-> FALSE, out |-> <<>>, built |-> FALSE]

\* a getter without the `is None` test: it builds and stores on every read
Stashed_rebuilds(c, stash_name, M) ==
    IF ~M.ok THEN Raised(c)
    ELSE [c |-> setattr(c, stash_name, M.v), ok |-> TRUE, out |-> M.v, built |-> TRUE]

\* a getter that claims its slot with an empty matrix before it builds
Stashed_claims_slot(c, stash_name, M) ==
    IF hasattr(c, stash_name)
    THEN [c |-> c, ok |-> TRUE, out |-> c[stash_name], built |-> FALSE]
    ELSE IF ~M.ok THEN Raised(setattr(c, stash_name, <<>>))
    ELSE [c |-> setattr(c, stash_name, M.v), ok |-> TRUE, out |-> M.v, built |-> TRUE]

\* if getattr(self, stash_name, None) is None: build and setattr;
\* return getattr(self, stash_name)
Stashed(c, stash_name, M) ==
    IF hasattr(c, stash_name)
    THEN [c |-> c, ok |-> TRUE, out |-> c[stash_name], built |-> FALSE]
    ELSE IF ~M.ok THEN Raised(c)
    ELSE [c |-> setattr(c, stash_name, M.v), ok |-> TRUE, out |-> M.v, built |-> TRUE]

\* prop = getattr(self, ...); M_prop = <M, built from prop.v>: the matrix,
\* when the property can be read
With(prop, M) == IF prop.ok THEN Ok(M) ELSE Fail

(***************************************************************************)
(* with_property_mass_matrices(property_name): the getters.                *)
(***************************************************************************)
\* MccProp: sp.diags(vol * prop)
Mcc_prop(c, arg) ==
    Stashed(c, Stash("_Mcc_", arg),
            With(Prop(Lower(arg)), Diags(VMul(cell_volumes, Prop(Lower(arg)).v))))

\* MnProp: sp.diags(aveN2CC.T * (vol * prop))
Mn_prop(c, arg) ==
    Stashed(c, Stash("_Mn_", arg),
            With(Prop(Lower(arg)),
                 Diags(MatVec(Transpose(aveN2CC), VMul(cell_volumes, Prop(Lower(arg)).v)))))

\* MfProp: mesh.get_face_inner_product(model=prop)
Mf_prop(c, arg) ==
    Stashed(c, Stash("_Mf_", arg),
            With(Prop(Lower(arg)), get_face_inner_product(Prop(Lower(arg)).v, FALSE)))

\* MeProp: mesh.get_edge_inner_product(model=prop)
Me_prop(c, arg) ==
    Stashed(c, Stash("_Me_", arg),
            With(Prop(Lower(arg)), get_edge_inner_product(Prop(Lower(arg)).v, FALSE)))

\* MccPropI: sp.diags(1.0 / (vol * prop))
MccI_prop(c, arg) ==
    Stashed(c, Stash("_MccI_", arg),
            With(Prop(Lower(arg)), Diags(VInv(VMul(cell_volumes, Prop(Lower(arg)).v)))))

\* MnPropI with the inverse taken before the averaging:
\* sp.diags(aveN2CC.T * (1.0 / (vol * prop)))
MnI_prop_inverse_averaged(c, arg) ==
    Stashed(c, Stash("_MnI_", arg),
            With(Prop(Lower(arg)),
                 Diags(MatVec(Transpose(aveN2CC), VInv(VMul(cell_volumes, Prop(Lower(arg)).v))))))

\* MnPropI: sp.diags(1.0 / (aveN2CC.T * (vol * prop)))
MnI_prop(c, arg) ==
    Stashed(c, Stash("_MnI_", arg),
            With(Prop(Lower(arg)),
                 Diags(VInv(MatVec(Transpose(aveN2CC), VMul(cell_volumes, Prop(Lower(arg)).v))))))

\* MfPropI: mesh.get_face_inner_product(model=prop, invert_matrix=True)
MfI_prop(c, arg) ==
    Stashed(c, Stash("_MfI_", arg),
            With(Prop(Lower(arg)), get_face_inner_product(Prop(Lower(arg)).v, TRUE)))

\* MePropI: mesh.get_edge_inner_product(model=prop, invert_matrix=True)
MeI_prop(c, arg) ==
    Stashed(c, Stash("_MeI_", arg),
            With(Prop(Lower(arg)), get_edge_inner_product(Prop(Lower(arg)).v, TRUE)))

\* a clear list whose forward names lost their property suffix
clear_on_prop_update_bare_names(arg) ==
    { Stash("_Mcc", ""), Stash("_Mn", ""), Stash("_Mf", ""), Stash("_Me", ""),
      Stash("_MccI_", arg), Stash("_MnI_", arg), Stash("_MfI_", arg), Stash("_MeI_", arg),
      StashDeriv("_Mcc_", arg), StashDeriv("_Mn_", arg),
      StashDeriv("_Mf_", arg), StashDeriv("_Me_", arg) }

\* a clear list that names the forward matrices and the derivatives only
clear_on_prop_update_no_inverse(arg) ==
    { Stash("_Mcc_", arg), Stash("_Mn_", arg), Stash("_Mf_", arg), Stash("_Me_", arg),
      StashDeriv("_Mcc_", arg), StashDeriv("_Mn_", arg),
      StashDeriv("_Mf_", arg), StashDeriv("_Me_", arg) }

\* _clear_on_<prop>_update
clear_on_prop_update(arg) ==
    { Stash("_Mcc_", arg), Stash("_Mn_", arg), Stash("_Mf_", arg), Stash("_Me_", arg),
      Stash("_MccI_", arg), Stash("_MnI_", arg), Stash("_MfI_", arg), Stash("_MeI_", arg),
      StashDeriv("_Mcc_", arg), StashDeriv("_Mn_", arg),
      StashDeriv("_Mf_", arg), StashDeriv("_Me_", arg) }

(***************************************************************************)
(* with_surface_property_mass_matrices(property_name): the getters.        *)
(***************************************************************************)
\* _MfProp: mesh.get_face_inner_product_surface(model=prop)
Surface_Mf_prop(c, arg) ==
    Stashed(c, Stash("__Mf_", arg),
            With(Prop(Lower(arg)), get_face_inner_product_surface(Prop(Lower(arg)).v, FALSE)))

\* _MeProp: mesh.get_edge_inner_product_surface(model=prop)
Surface_Me_prop(c, arg) ==
    Stashed(c, Stash("__Me_", arg),
            With(Prop(Lower(arg)), get_edge_inner_product_surface(Prop(Lower(arg)).v, FALSE)))

\* _MfPropI: mesh.get_face_inner_product_surface(model=prop, invert_matrix=True)
Surface_MfI_prop(c, arg) ==
    Stashed(c, Stash("__MfI_", arg),
            With(Prop(Lower(arg)), get_face_inner_product_surface(Prop(Lower(arg)).v, TRUE)))

\* _MePropI: mesh.get_edge_inner_product_surface(model=prop, invert_matrix=True)
Surface_MeI_prop(c, arg) ==
    Stashed(c, Stash("__MeI_", arg),
            With(Prop(Lower(arg)), get_edge_inner_product_surface(Prop(Lower(arg)).v, TRUE)))

\* _clear_on_<prop>_update of the surface decorator
surface_clear_on_prop_update(arg) ==
    { Stash("__Mf_", arg), Stash("__Me_", arg), Stash("__MfI_", arg), Stash("__MeI_", arg),
      StashDeriv("__Mf_", arg), StashDeriv("__Me_", arg) }

(***************************************************************************)
(* with_line_property_mass_matrices(property_name): the getters.           *)
(***************************************************************************)
\* a line getter whose stash name lost the property: kappa and kappai share it
Line_Me_prop_shared_name(c, arg) ==
    Stashed(c, Stash("__Me_", ""),
            With(Prop(Lower(arg)), get_edge_inner_product_line(Prop(Lower(arg)).v, FALSE)))

\* _MeProp: mesh.get_edge_inner_product_line(model=prop)
Line_Me_prop(c, arg) ==
    Stashed(c, Stash("__Me_", arg),
            With(Prop(Lower(arg)), get_edge_inner_product_line(Prop(Lower(arg)).v, FALSE)))

\* _MePropI: mesh.get_edge_inner_product_line(model=prop, invert_matrix=True)
Line_MeI_prop(c, arg) ==
    Stashed(c, Stash("__MeI_", arg),
            With(Prop(Lower(arg)), get_edge_inner_product_line(Prop(Lower(arg)).v, TRUE)))

\* _clear_on_<prop>_update of the line decorator
line_clear_on_prop_update(arg) ==
    { Stash("__Me_", arg), Stash("__MeI_", arg), StashDeriv("__Me_", arg) }

(***************************************************************************)
(* numpy arrays and what a derivative returns.  t is the Python type:      *)
(* "Zero" the sentinel discretize.utils.Zero, "None", "ndarray" with its   *)
(* ndim nd (a vector, or a matrix as its rows, or for nd = 3 rows of rows),*)
(* "sparse" a scipy.sparse matrix, "error" a raised exception.             *)
(***************************************************************************)
ZeroV == [t |-> "Zero", nd |-> 0, a |-> <<>>]
NoneV == [t |-> "None", nd |-> 0, a |-> <<>>]
ErrorV == [t |-> "error", nd |-> 0, a |-> <<>>]
Array1(x) == [t |-> "ndarray", nd |-> 1, a |-> x]
Array2(A) == [t |-> "ndarray", nd |-> 2, a |-> A]
Array3(A) == [t |-> "ndarray", nd |-> 3, a |-> A]
Sparse(A) == [t |-> "sparse", nd |-> 2, a |-> A]

\* isinstance(x, Zero)
IsZero(x) == x.t = "Zero"

\* np.squeeze of a 1-D or 2-D array: axes of length one are dropped
Squeeze(x) ==
    IF x.nd # 2 THEN x
    ELSE IF NCols(x.a) = 1 THEN Array1(Col(x.a, 1))
    ELSE IF Len(x.a) = 1 THEN Array1(x.a[1])
    ELSE x

\* x[:, None] of a 1-D array
ColumnOf(x) == Array2([i \in 1..Len(x.a) |-> <<x.a[i]>>])

\* -u
Negate(u) ==
    IF u.nd = 1 THEN Array1(VNeg(u.a))
    ELSE Array2([i \in 1..Len(u.a) |-> VNeg(u.a[i])])

\* A * x and A @ x for a sparse A and a 1-D or 2-D array x
SpMul(A, x) ==
    IF x.t # "ndarray" \/ Len(x.a) # NCols(A) THEN ErrorV
    ELSE IF x.nd = 1 THEN Array1(MatVec(A, x.a))
    ELSE Array2(MatMul(A, x.a))

\* x * y with numpy broadcasting, for two 1-D or two 2-D arrays
Mul(x, y) ==
    IF x.t # "ndarray" \/ y.t # "ndarray" \/ x.nd # y.nd \/ Len(x.a) # Len(y.a)
    THEN ErrorV
    ELSE IF x.nd = 1 THEN Array1(VMul(x.a, y.a))
    ELSE LET kx == NCols(x.a)
             ky == NCols(y.a)
             k == IF kx > ky THEN kx ELSE ky
         IN  IF kx # ky /\ kx # 1 /\ ky # 1 THEN ErrorV
             ELSE Array2([i \in 1..Len(x.a) |-> [j \in 1..k |->
                     RMul(x.a[i][IF kx = 1 THEN 1 ELSE j],
                          y.a[i][IF ky = 1 THEN 1 ELSE j])]])

\* x[:, 0] in the place of x.sum(axis=-1)
SumLast_first_column(x) ==
    IF x.t # "ndarray" THEN ErrorV
    ELSE IF x.nd = 1 THEN ErrorV
    ELSE Array1([i \in 1..Len(x.a) |-> x.a[i][1]])

\* x.sum(axis=-1)
SumLast(x) ==
    IF x.t # "ndarray" THEN ErrorV
    ELSE IF x.nd = 1 THEN ErrorV
    ELSE Array1([i \in 1..Len(x.a) |-> RSum(x.a[i], Len(x.a[i]))])

\* the same with u's first column taken for every field
OuterColumns_first_field(u, w) ==
    IF w.t # "ndarray" \/ Len(w.a) # Len(u.a) THEN ErrorV
    ELSE IF NCols(w.a) = 1
    THEN Array2([a \in 1..Len(u.a) |-> [j \in 1..NCols(u.a) |->
                    RMul(u.a[a][1], w.a[a][1])]])
    ELSE Array3([a \in 1..Len(u.a) |-> [i \in 1..NCols(w.a) |->
                    [j \in 1..NCols(u.a) |-> RMul(u.a[a][1], w.a[a][i])]]])

\* np.squeeze(u[:, None, :] * w[:, :, None]) for 2-D u (n, k) and w (n, j)
OuterColumns(u, w) ==
    IF w.t # "ndarray" \/ Len(w.a) # Len(u.a) THEN ErrorV
    ELSE IF NCols(w.a) = 1
    THEN Array2([a \in 1..Len(u.a) |-> [j \in 1..NCols(u.a) |->
                    RMul(u.a[a][j], w.a[a][1])]])
    ELSE Array3([a \in 1..Len(u.a) |-> [i \in 1..NCols(w.a) |->
                    [j \in 1..NCols(u.a) |-> RMul(u.a[a][j], w.a[a][i])]]])

\* sp.vstack([sp.diags(u[:, i]) @ M for i in range(u.shape[1])])
RECURSIVE VStack(_, _, _)
VStack(M, u, k) ==
    IF k = 0 THEN <<>>
    ELSE VStack(M, u, k - 1) \o MatMul(Diags(Col(u, k)), M)

\* the products with an adjoint that leaves u out: M.T * v
inner_products_adjoint_drops_u(M, u, v, adjoint) ==
    IF adjoint
    THEN SpMul(Transpose(M), v)
    ELSE IF u.nd > 1 /\ NCols(u.a) > 1
         THEN OuterColumns(u, SpMul(M, v))
         ELSE Mul(u, SpMul(M, v))

\* lines 23-29: the products, u and v as lines 10-22 left them
inner_products(M, u, v, adjoint) ==
    IF adjoint
    THEN IF u.nd > 1 /\ NCols(u.a) > 1
         THEN SpMul(Transpose(M), SumLast(Mul(u, v)))
         ELSE SpMul(Transpose(M), Mul(u, v))
    ELSE IF u.nd > 1 /\ NCols(u.a) > 1
         THEN OuterColumns(u, SpMul(M, v))
         ELSE Mul(u, SpMul(M, v))

\* lines 14-29: a column is made of v, or of u, to fit the other
inner_with_v(M, u1, v1, adjoint) ==
    inner_products(M,
                   IF u1.nd <= 1 /\ v1.nd > 1 THEN ColumnOf(u1) ELSE u1,
                   IF u1.nd > 1 /\ v1.nd = 1 THEN ColumnOf(v1) ELSE v1,
                   adjoint)

\* lines 31-38 without the test of adjoint: UM is returned as it is
inner_without_v_never_transposed(M, u1, adjoint) ==
    IF Len(u1.a) # Len(M) THEN ErrorV
    ELSE Sparse(IF u1.nd > 1 THEN VStack(M, u1.a, NCols(u1.a))
                ELSE MatMul(Diags(u1.a), M))

\* lines 31-38: v is None
inner_without_v(M, u1, adjoint) ==
    IF Len(u1.a) # Len(M) THEN ErrorV
    ELSE IF adjoint
    THEN Sparse(Transpose(IF u1.nd > 1 THEN VStack(M, u1.a, NCols(u1.a))
                          ELSE MatMul(Diags(u1.a), M)))
    ELSE Sparse(IF u1.nd > 1 THEN VStack(M, u1.a, NCols(u1.a))
                ELSE MatMul(Diags(u1.a), M))

\* __inner_mat_mul_op(M, u, v=None, adjoint=False)
inner_mat_mul_op(M, u0, v0, adjoint) ==
    IF v0.t # "None"
    THEN inner_with_v(M, Squeeze(u0), IF v0.nd > 1 THEN Squeeze(v0) ELSE v0, adjoint)
    ELSE inner_without_v(M, Squeeze(u0), adjoint)

(***************************************************************************)
(* The derivatives.  A derivative returns the stash after the call and     *)
(* what the call returned (out), ok = FALSE when it raised.                *)
(***************************************************************************)
RaisedV(c) == [c |-> c, ok |-> FALSE, out |-> ErrorV, built |-> FALSE]

\* return Zero()
ReturnZero(c) == [c |-> c, ok |-> TRUE, out |-> ZeroV, built |-> FALSE]

\* what a derivative returns: the product o, with the stash r left
Returned(r, o) == [c |-> r.c, ok |-> o.t # "error", out |-> o, built |-> r.built]

\* return __inner_mat_mul_op(M_prop_deriv, u, v=v, adjoint=adjoint), where r
\* is the stashed M_prop_deriv
InnerOfStashed(r, u, v, adjoint) ==
    IF ~r.ok THEN RaisedV(r.c)
    ELSE Returned(r, inner_mat_mul_op(r.out, u, v, adjoint))

\* the same without the `is None` test: the derivative map is built and
\* stored on every call
DerivStashed_rebuilds(c, stash_name, M_prop_deriv, u, v, adjoint) ==
    InnerOfStashed(Stashed_rebuilds(c, stash_name, M_prop_deriv), u, v, adjoint)

\* if getattr(self, stash_name, None) is None: build the derivative map and
\* setattr; return __inner_mat_mul_op(getattr(self, stash_name), u, v, adjoint)
DerivStashed(c, stash_name, M_prop_deriv, u, v, adjoint) ==
    InnerOfStashed(Stashed(c, stash_name, M_prop_deriv), u, v, adjoint)

(***************************************************************************)
(* with_property_mass_matrices: the derivatives of the forward matrices.   *)
(***************************************************************************)
\* MccPropDeriv without the test of the map
MccDeriv_prop_no_guard(c, arg, u, v, adjoint) ==
    IF IsZero(u) \/ IsZero(v) THEN ReturnZero(c)
    ELSE DerivStashed(c, StashDeriv("_Mcc_", arg),
                      With(PropDeriv(Lower(arg)),
                           MatMul(Diags(cell_volumes), PropDeriv(Lower(arg)).v)),
                      u, v, adjoint)

\* MccPropDeriv with the map's derivative alone, the volumes left out
MccDeriv_prop_no_volume(c, arg, u, v, adjoint) ==
    IF MapOf(Lower(arg)) = NoMap THEN ReturnZero(c)
    ELSE IF IsZero(u) \/ IsZero(v) THEN ReturnZero(c)
    ELSE DerivStashed(c, StashDeriv("_Mcc_", arg),
                      With(PropDeriv(Lower(arg)), PropDeriv(Lower(arg)).v),
                      u, v, adjoint)

\* MccPropDeriv: sp.diags(vol) * propDeriv
MccDeriv_prop(c, arg, u, v, adjoint) ==
    IF MapOf(Lower(arg)) = NoMap THEN ReturnZero(c)
    ELSE IF IsZero(u) \/ IsZero(v) THEN ReturnZero(c)
    ELSE DerivStashed(c, StashDeriv("_Mcc_", arg),
                      With(PropDeriv(Lower(arg)),
                           MatMul(Diags(cell_volumes), PropDeriv(Lower(arg)).v)),
                      u, v, adjoint)

\* MnPropDeriv with the test made on the pair: Zero only when neither the
\* property nor its reciprocal partner has a map
MnDeriv_prop_pair_guard(c, arg, u, v, adjoint) ==
    IF /\ MapOf(Lower(arg)) = NoMap
       /\ HasReciprocal(Lower(arg)) => MapOf(Reciprocal(Lower(arg))) = NoMap
    THEN ReturnZero(c)
    ELSE IF IsZero(u) \/ IsZero(v) THEN ReturnZero(c)
    ELSE DerivStashed(c, StashDeriv("_Mn_", arg),
                      With(PropDeriv(Lower(arg)),
                           MatMul(MatMul(Transpose(aveN2CC), Diags(cell_volumes)), PropDeriv(Lower(arg)).v)),
                      u, v, adjoint)

\* MnPropDeriv: aveN2CC.T * sp.diags(vol) * propDeriv
MnDeriv_prop(c, arg, u, v, adjoint) ==
    IF MapOf(Lower(arg)) = NoMap THEN ReturnZero(c)
    ELSE IF IsZero(u) \/ IsZero(v) THEN ReturnZero(c)
    ELSE DerivStashed(c, StashDeriv("_Mn_", arg),
                      With(PropDeriv(Lower(arg)),
                           MatMul(MatMul(Transpose(aveN2CC), Diags(cell_volumes)), PropDeriv(Lower(arg)).v)),
                      u, v, adjoint)

\* MfPropDeriv without the test of u and v
MfDeriv_prop_no_zero_test(c, arg, u, v, adjoint) ==
    IF MapOf(Lower(arg)) = NoMap THEN ReturnZero(c)
    ELSE DerivStashed(c, StashDeriv("_Mf_", arg),
                      With(PropDeriv(Lower(arg)),
                           MatMul(get_face_inner_product_deriv, PropDeriv(Lower(arg)).v)),
                      u, v, adjoint)

\* MfPropDeriv: mesh.get_face_inner_product_deriv(ones)(ones) * propDeriv
MfDeriv_prop(c, arg, u, v, adjoint) ==
    IF MapOf(Lower(arg)) = NoMap THEN ReturnZero(c)
    ELSE IF IsZero(u) \/ IsZero(v) THEN ReturnZero(c)
    ELSE DerivStashed(c, StashDeriv("_Mf_", arg),
                      With(PropDeriv(Lower(arg)),
                           MatMul(get_face_inner_product_deriv, PropDeriv(Lower(arg)).v)),
                      u, v, adjoint)

\* MePropDeriv: mesh.get_edge_inner_product_deriv(ones)(ones) * propDeriv
MeDeriv_prop(c, arg, u, v, adjoint) ==
    IF MapOf(Lower(arg)) = NoMap THEN ReturnZero(c)
    ELSE IF IsZero(u) \/ IsZero(v) THEN ReturnZero(c)
    ELSE DerivStashed(c, StashDeriv("_Me_", arg),
                      With(PropDeriv(Lower(arg)),
                           MatMul(get_edge_inner_product_deriv, PropDeriv(Lower(arg)).v)),
                      u, v, adjoint)

(***************************************************************************)
(* with_surface_property_mass_matrices: the same.                          *)
(***************************************************************************)
\* _MfPropDeriv: mesh.get_face_inner_product_surface_deriv(ones)(ones) * propDeriv
Surface_MfDeriv_prop(c, arg, u, v, adjoint) ==
    IF MapOf(Lower(arg)) = NoMap THEN ReturnZero(c)
    ELSE IF IsZero(u) \/ IsZero(v) THEN ReturnZero(c)
    ELSE DerivStashed(c, StashDeriv("__Mf_", arg),
                      With(PropDeriv(Lower(arg)),
                           MatMul(get_face_inner_product_surface_deriv, PropDeriv(Lower(arg)).v)),
                      u, v, adjoint)

\* _MePropDeriv: mesh.get_edge_inner_product_surface_deriv(ones)(ones) * propDeriv
Surface_MeDeriv_prop(c, arg, u, v, adjoint) ==
    IF MapOf(Lower(arg)) = NoMap THEN ReturnZero(c)
    ELSE IF IsZero(u) \/ IsZero(v) THEN ReturnZero(c)
    ELSE DerivStashed(c, StashDeriv("__Me_", arg),
                      With(PropDeriv(Lower(arg)),
                           MatMul(get_edge_inner_product_surface_deriv, PropDeriv(Lower(arg)).v)),
                      u, v, adjoint)

(***************************************************************************)
(* with_line_property_mass_matrices: the same.                             *)
(***************************************************************************)
\* _MePropDeriv: mesh.get_edge_inner_product_line_deriv(ones)(ones) * propDeriv
Line_MeDeriv_prop(c, arg, u, v, adjoint) ==
    IF MapOf(Lower(arg)) = NoMap THEN ReturnZero(c)
    ELSE IF IsZero(u) \/ IsZero(v) THEN ReturnZero(c)
    ELSE DerivStashed(c, StashDeriv("__Me_", arg),
                      With(PropDeriv(Lower(arg)),
                           MatMul(get_edge_inner_product_line_deriv, PropDeriv(Lower(arg)).v)),
                      u, v, adjoint)

(***************************************************************************)
(* The derivatives of the inverses, of the three decorators.               *)
(***************************************************************************)
\* getattr(self, f"Mcc{arg}Deriv"), ..., getattr(self, f"_Me{arg}Deriv"): the
\* method of that name, called
DerivNamed(c, name, arg, u, v, adjoint) ==
    CASE name = "Mcc" -> MccDeriv_prop(c, arg, u, v, adjoint)
      [] name = "Mn" -> MnDeriv_prop(c, arg, u, v, adjoint)
      [] name = "Mf" -> MfDeriv_prop(c, arg, u, v, adjoint)
      [] name = "Me" -> MeDeriv_prop(c, arg, u, v, adjoint)
      [] name = "_Mf" -> Surface_MfDeriv_prop(c, arg, u, v, adjoint)
      [] name = "_Me" /\ arg = "Tau" -> Surface_MeDeriv_prop(c, arg, u, v, adjoint)
      [] name = "_Me" /\ arg # "Tau" -> Line_MeDeriv_prop(c, arg, u, v, adjoint)

\* the same with the inverse applied once: u = MI_prop @ -u
IDerivVia_once(MI_prop, u, name, arg, v, adjoint) ==
    IF ~MI_prop.ok THEN RaisedV(MI_prop.c)
    ELSE LET u2 == SpMul(MI_prop.out, Negate(u))
         IN  IF u2.t = "error" THEN RaisedV(MI_prop.c)
             ELSE DerivNamed(MI_prop.c, name, arg, u2, v, adjoint)

\* MI_prop = <the inverse getter>; u = MI_prop @ (MI_prop @ -u);
\* M_prop_deriv = getattr(self, f"{name}{arg}Deriv");
\* return M_prop_deriv(u, v, adjoint=adjoint)
IDerivVia(MI_prop, u, name, arg, v, adjoint) ==
    IF ~MI_prop.ok THEN RaisedV(MI_prop.c)
    ELSE LET u2 == SpMul(MI_prop.out, SpMul(MI_prop.out, Negate(u)))
         IN  IF u2.t = "error" THEN RaisedV(MI_prop.c)
             ELSE DerivNamed(MI_prop.c, name, arg, u2, v, adjoint)

\* MccPropIDeriv
MccIDeriv_prop(c, arg, u, v, adjoint) ==
    IF MapOf(Lower(arg)) = NoMap THEN ReturnZero(c)
    ELSE IF IsZero(u) \/ IsZero(v) THEN ReturnZero(c)
    ELSE IDerivVia(MccI_prop(c, arg), u, "Mcc", arg, v, adjoint)

\* MnPropIDeriv
MnIDeriv_prop(c, arg, u, v, adjoint) ==
    IF MapOf(Lower(arg)) = NoMap THEN ReturnZero(c)
    ELSE IF IsZero(u) \/ IsZero(v) THEN ReturnZero(c)
    ELSE IDerivVia(MnI_prop(c, arg), u, "Mn", arg, v, adjoint)

\* MfPropIDeriv
MfIDeriv_prop(c, arg, u, v, adjoint) ==
    IF MapOf(Lower(arg)) = NoMap THEN ReturnZero(c)
    ELSE IF IsZero(u) \/ IsZero(v) THEN ReturnZero(c)
    ELSE IDerivVia(MfI_prop(c, arg), u, "Mf", arg, v, adjoint)

\* MePropIDeriv that reads the inverse before its two tests
MeIDeriv_prop_reads_first(c, arg, u, v, adjoint) ==
    IF MapOf(Lower(arg)) = NoMap THEN ReturnZero(MeI_prop(c, arg).c)
    ELSE IF IsZero(u) \/ IsZero(v) THEN ReturnZero(MeI_prop(c, arg).c)
    ELSE IDerivVia(MeI_prop(c, arg), u, "Me", arg, v, adjoint)

\* MePropIDeriv
MeIDeriv_prop(c, arg, u, v, adjoint) ==
    IF MapOf(Lower(arg)) = NoMap THEN ReturnZero(c)
    ELSE IF IsZero(u) \/ IsZero(v) THEN ReturnZero(c)
    ELSE IDerivVia(MeI_prop(c, arg), u, "Me", arg, v, adjoint)

\* _MfPropIDeriv of a surface property
Surface_MfIDeriv_prop(c, arg, u, v, adjoint) ==
    IF MapOf(Lower(arg)) = NoMap THEN ReturnZero(c)
    ELSE IF IsZero(u) \/ IsZero(v) THEN ReturnZero(c)
    ELSE IDerivVia(Surface_MfI_prop(c, arg), u, "_Mf", arg, v, adjoint)

\* _MePropIDeriv of a surface property
Surface_MeIDeriv_prop(c, arg, u, v, adjoint) ==
    IF MapOf(Lower(arg)) = NoMap THEN ReturnZero(c)
    ELSE IF IsZero(u) \/ IsZero(v) THEN ReturnZero(c)
    ELSE IDerivVia(Surface_MeI_prop(c, arg), u, "_Me", arg, v, adjoint)

\* _MePropIDeriv of a line property
Line_MeIDeriv_prop(c, arg, u, v, adjoint) ==
    IF MapOf(Lower(arg)) = NoMap THEN ReturnZero(c)
    ELSE IF IsZero(u) \/ IsZero(v) THEN ReturnZero(c)
    ELSE IDerivVia(Line_MeI_prop(c, arg), u, "_Me", arg, v, adjoint)

(***************************************************************************)
(* BasePDESimulation: the matrices of the mesh alone, stashed under _Mcc,  *)
(* _Mn, _Mf, _Me and _MccI, _MnI, _MfI, _MeI.                              *)
(***************************************************************************)
BaseMatrices == {"_Mcc", "_Mn", "_Mf", "_Me", "_MccI", "_MnI", "_MfI", "_MeI"}
BaseNames == {Stash(name, "") : name \in BaseMatrices}

\* Mcc, Mn, Mf, Me, MccI, MnI, MfI, MeI: the getter of the attribute `name`;
\* the mesh's inner products without a model are those of a model of ones
Base_getter(c, name) ==
    Stashed(c, Stash(name, ""),
            Ok(CASE name = "_Mcc" -> Diags(cell_volumes)
                 [] name = "_Mn" -> Diags(MatVec(Transpose(aveN2CC), cell_volumes))
                 [] name = "_Mf" -> get_face_inner_product(Ones(n_cells), FALSE)
                 [] name = "_Me" -> get_edge_inner_product(Ones(n_cells), FALSE)
                 [] name = "_MccI" -> Diags(VInv(cell_volumes))
                 [] name = "_MnI" -> Diags(VInv(MatVec(Transpose(aveN2CC), cell_volumes)))
                 [] name = "_MfI" -> get_face_inner_product(Ones(n_cells), TRUE)
                 [] name = "_MeI" -> get_edge_inner_product(Ones(n_cells), TRUE)))

(***************************************************************************)
(* BaseSimulation: assigning the model deletes the attributes named by     *)
(* deleteTheseOnModelUpdate (of the object's class); its own list is [].   *)
(***************************************************************************)
Base_deleteTheseOnModelUpdate == {}

(***************************************************************************)
(* BaseElectricalPDESimulation                                             *)
(***************************************************************************)
\* a model update that deletes the stashed derivatives only
Electrical_deleteTheseOnModelUpdate_derivs ==
    LET toDelete == Base_deleteTheseOnModelUpdate
    IN  IF MapOf("sigma") # NoMap \/ MapOf("rho") # NoMap
        THEN toDelete \cup {s \in clear_on_prop_update("Sigma") \cup clear_on_prop_update("Rho") :
                               s[3] = "_deriv"}
        ELSE toDelete

Electrical_deleteTheseOnModelUpdate ==
    LET toDelete == Base_deleteTheseOnModelUpdate
    IN  IF MapOf("sigma") # NoMap \/ MapOf("rho") # NoMap
        THEN toDelete \cup clear_on_prop_update("Sigma") \cup clear_on_prop_update("Rho")
        ELSE toDelete

(***************************************************************************)
(* BaseMagneticPDESimulation                                               *)
(***************************************************************************)
Magnetic_deleteTheseOnModelUpdate ==
    LET toDelete == Base_deleteTheseOnModelUpdate
    IN  IF MapOf("mu") # NoMap \/ MapOf("mui") # NoMap
        THEN toDelete \cup clear_on_prop_update("Mu") \cup clear_on_prop_update("Mui")
        ELSE toDelete

(***************************************************************************)
(* BaseConductancePDESimulation                                            *)
(***************************************************************************)
MeSigmaTauKappaName == <<"__MeSigmaTauKappa", "", "">>
MeSigmaTauKappaIName == <<"__MeSigmaTauKappaI", "", "">>
MeSigmaTauKappaDerivName == <<"__MeSigmaTauKappaDeriv", "", "">>

\* the list without the class's own three names
Conductance_mat_list_no_composite ==
    clear_on_prop_update("Sigma") \cup clear_on_prop_update("Rho")
      \cup surface_clear_on_prop_update("Tau")
      \cup line_clear_on_prop_update("Kappa") \cup line_clear_on_prop_update("Kappai")

\* the list both __setattr__ and deleteTheseOnModelUpdate of the class build
Conductance_mat_list ==
    clear_on_prop_update("Sigma") \cup clear_on_prop_update("Rho")
      \cup surface_clear_on_prop_update("Tau")
      \cup line_clear_on_prop_update("Kappa") \cup line_clear_on_prop_update("Kappai")
      \cup {MeSigmaTauKappaName, MeSigmaTauKappaIName, MeSigmaTauKappaDerivName}

Conductance_deleteTheseOnModelUpdate ==
    LET toDelete == Electrical_deleteTheseOnModelUpdate
    IN  IF MapOf("tau") # NoMap \/ MapOf("kappa") # NoMap \/ MapOf("kappai") # NoMap
        THEN toDelete \cup Conductance_mat_list
        ELSE toDelete

\* self.deleteTheseOnModelUpdate, dispatched on the object's class
deleteTheseOnModelUpdate ==
    CASE cls = "Electrical" -> Electrical_deleteTheseOnModelUpdate
      [] cls = "Magnetic" -> Magnetic_deleteTheseOnModelUpdate
      [] cls = "Conductance" -> Conductance_deleteTheseOnModelUpdate

\* BaseSimulation.__setattr__: what the assignment does to the stash
Base_setattr(c, name) ==
    IF name = "model" THEN delattrs(c, deleteTheseOnModelUpdate) ELSE c

\* the class without its __setattr__ override
Electrical_setattr_inherited(c, name) ==
    Base_setattr(c, name)

\* BaseElectricalPDESimulation.__setattr__
Electrical_setattr(c, name) ==
    LET c1 == Base_setattr(c, name)
    IN  IF name \in {"sigma", "rho"}
        THEN delattrs(c1, clear_on_prop_update("Sigma") \cup clear_on_prop_update("Rho"))
        ELSE c1

\* a __setattr__ that clears the list of the assigned name only
Magnetic_setattr_own_list(c, name) ==
    LET c1 == Base_setattr(c, name)
    IN  IF name = "mu" THEN delattrs(c1, clear_on_prop_update("Mu"))
        ELSE IF name = "mui" THEN delattrs(c1, clear_on_prop_update("Mui"))
        ELSE c1

\* BaseMagneticPDESimulation.__setattr__
Magnetic_setattr(c, name) ==
    LET c1 == Base_setattr(c, name)
    IN  IF name \in {"mu", "mui"}
        THEN delattrs(c1, clear_on_prop_update("Mu") \cup clear_on_prop_update("Mui"))
        ELSE c1

\* a __setattr__ that clears the lists of the assigned pair and the three
\* composite names only
Conductance_setattr_own_list(c, name) ==
    LET c1 == Electrical_setattr(c, name)
    IN  IF name \in {"sigma", "rho", "tau", "kappa", "kappai"}
        THEN delattrs(c1, {s \in Conductance_mat_list :
                              \/ s[2] = ""
                              \/ Lower(s[2]) = name
                              \/ HasReciprocal(name) /\ Lower(s[2]) = Reciprocal(name)})
        ELSE c1

\* BaseConductancePDESimulation.__setattr__
Conductance_setattr(c, name) ==
    LET c1 == Electrical_setattr(c, name)
    IN  IF name \in {"sigma", "rho", "tau", "kappa", "kappai"}
        THEN delattrs(c1, Conductance_mat_list)
        ELSE c1

\* self.__setattr__(name, value), dispatched on the object's class
class_setattr(c, name) ==
    CASE cls = "Electrical" -> Electrical_setattr(c, name)
      [] cls = "Magnetic" -> Magnetic_setattr(c, name)
      [] cls = "Conductance" -> Conductance_setattr(c, name)

\* self.MeSigma + self._MeTau: the sum without the edge term
SumOfThree_no_kappa(c) ==
    LET s == Me_prop(c, "Sigma")
        t == Surface_Me_prop(s.c, "Tau")
        k == Line_Me_prop(t.c, "Kappa")
    IN  IF ~s.ok THEN Raised(s.c)
        ELSE IF ~t.ok THEN Raised(t.c)
        ELSE IF ~k.ok THEN Raised(k.c)
        ELSE [c |-> k.c, ok |-> TRUE, out |-> MatAdd(s.out, t.out), built |-> TRUE]

\* self.MeSigma + self._MeTau + self._MeKappa, read left to right
SumOfThree(c) ==
    LET s == Me_prop(c, "Sigma")
        t == Surface_Me_prop(s.c, "Tau")
        k == Line_Me_prop(t.c, "Kappa")
    IN  IF ~s.ok THEN Raised(s.c)
        ELSE IF ~t.ok THEN Raised(t.c)
        ELSE IF ~k.ok THEN Raised(k.c)
        ELSE [c |-> k.c, ok |-> TRUE, out |-> MatAdd(MatAdd(s.out, t.out), k.out),
              built |-> TRUE]

\* _MeSigmaTauKappa
MeSigmaTauKappa(c) ==
    IF hasattr(c, MeSigmaTauKappaName)
    THEN [c |-> c, ok |-> TRUE, out |-> c[MeSigmaTauKappaName], built |-> FALSE]
    ELSE LET M_prop == SumOfThree(c)
         IN  IF ~M_prop.ok THEN M_prop
             ELSE [M_prop EXCEPT !.c = setattr(M_prop.c, MeSigmaTauKappaName, M_prop.out)]

\* _MeSigmaTauKappaI
MeSigmaTauKappaI(c) ==
    IF hasattr(c, MeSigmaTauKappaIName)
    THEN [c |-> c, ok |-> TRUE, out |-> c[MeSigmaTauKappaIName], built |-> FALSE]
    ELSE LET S == SumOfThree(c)
             M_prop == sdinv(S.out)
         IN  IF ~S.ok THEN S
             ELSE [c |-> setattr(S.c, MeSigmaTauKappaIName, M_prop), ok |-> TRUE,
                   out |-> M_prop, built |-> TRUE]

\* _MeSigmaTauKappaDeriv that falls back on sigma's derivative when tau has
\* no map
MeSigmaTauKappaDeriv_or_sigma(c, u, v, adjoint) ==
    IF MapOf("tau") = NoMap THEN MeDeriv_prop(c, "Sigma", u, v, adjoint)
    ELSE Surface_MeDeriv_prop(c, "Tau", u, v, adjoint)

\* _MeSigmaTauKappaDeriv that keeps what it returned under
\* __MeSigmaTauKappaDeriv and returns that from then on
MeSigmaTauKappaDeriv_stashes(c, u, v, adjoint) ==
    IF hasattr(c, MeSigmaTauKappaDerivName)
    THEN [c |-> c, ok |-> TRUE, out |-> c[MeSigmaTauKappaDerivName], built |-> FALSE]
    ELSE LET r == Surface_MeDeriv_prop(c, "Tau", u, v, adjoint)
         IN  IF r.out.t \in {"ndarray", "sparse"}
             THEN [r EXCEPT !.c = setattr(r.c, MeSigmaTauKappaDerivName, r.out)]
             ELSE r

\* _MeSigmaTauKappaDeriv: return self._MeTauDeriv(u, v, adjoint)
MeSigmaTauKappaDeriv(c, u, v, adjoint) ==
    Surface_MeDeriv_prop(c, "Tau", u, v, adjoint)

\* _MeSigmaTauKappaIDeriv
MeSigmaTauKappaIDeriv(c, u, v, adjoint) ==
    IF MapOf("tau") = NoMap THEN ReturnZero(c)
    ELSE IF IsZero(u) \/ IsZero(v) THEN ReturnZero(c)
    ELSE IDerivVia(MeSigmaTauKappaI(c), u, "_Me", "Tau", v, adjoint)

(***************************************************************************)
(* The state machine.  ret describes the last operation: the attribute     *)
(* read (slot) and what came back (out), whether the call built the object *)
(* it returned, and for an assignment the stash entries it deleted and     *)
(* whether the assigned array equals the property's previous one.  A read  *)
(* that follows an assignment notes whether that assignment deleted the    *)
(* entry read (again) and carries the assignment's `same`.                 *)
(***************************************************************************)
\* stash entries a run holds at most when a call starts to build another
MaxStashed == 1

StdArgs == IF cls = "Magnetic" THEN {"Mu", "Mui"} ELSE {"Sigma", "Rho"}
SurfaceArgs == IF cls = "Conductance" THEN {"Tau"} ELSE {}
LineArgs == IF cls = "Conductance" THEN {"Kappa", "Kappai"} ELSE {}

\* the fields and directions handed to the derivatives
Fields(n) == {ZeroV, Array1(ArrayA(n))}
Directions(n) == {NoneV, ZeroV, Array1(ArrayB(n))}
DirLen(n_out, adjoint) == IF adjoint THEN n_out ELSE n_cells

\* the name of the map attribute of property p: f"{p}Map"
MapName(p) ==
    CASE p = "sigma" -> "sigmaMap" [] p = "rho" -> "rhoMap" [] p = "mu" -> "muMap"
      [] p = "mui" -> "muiMap" [] p = "tau" -> "tauMap" [] p = "kappa" -> "kappaMap"
      [] p = "kappai" -> "kappaiMap"

Partners(p) == IF HasReciprocal(p) THEN {p, Reciprocal(p)} ELSE {p}

\* what a stash name holds: a forward matrix, an inverse or a derivative
SlotKind(s) ==
    IF s[3] = "_deriv" \/ s = MeSigmaTauKappaDerivName THEN "deriv"
    ELSE IF s[1] \in {"_MccI_", "_MnI_", "_MfI_", "_MeI_", "__MfI_", "__MeI_"}
            \/ s = MeSigmaTauKappaIName THEN "inverse"
    ELSE "forward"

\* the stash names an assignment deleted
Cleared(c, c2) == DOMAIN c \ DOMAIN c2

NoRet == [op |-> "init", prop |-> "", slot |-> <<>>, out |-> NoneV,
          built |-> FALSE, cleared |-> {}, same |-> FALSE, again |-> FALSE,
          live |-> FALSE]

\* the object after __init__ with the class's defaults: sigma (mu) given,
\* kappa = 0., tau = None, no map, no model
InitDefault ==
    /\ cls \in Classes
    /\ val = [p \in PropsOf(cls) |->
                IF p \in {"sigma", "mu"} THEN ArrayA(PropLen(p))
                ELSE IF p = "kappa" THEN Zeros(PropLen(p))
                ELSE None]
    /\ pmap = [p \in PropsOf(cls) |-> NoMap]
    /\ model = None
    /\ cache = <<>>
    /\ src = NoSrc
    /\ ret = NoRet

\* the object after __init__ with each property given by an array (sigma, mu,
\* tau; kappa = 0.) or by a map on it or on its reciprocal partner; no model
Init ==
    /\ cls \in Classes
    /\ pmap \in [PropsOf(cls) -> InitMaps \cup {NoMap}]
    /\ \A p \in PropsOf(cls) :
          HasReciprocal(p) => pmap[p] = NoMap \/ pmap[Reciprocal(p)] = NoMap
    /\ val = [p \in PropsOf(cls) |->
                IF \E q \in Partners(p) : pmap[q] # NoMap THEN None
                ELSE IF p \in {"sigma", "mu", "tau"} THEN ArrayA(PropLen(p))
                ELSE IF p = "kappa" THEN Zeros(PropLen(p))
                ELSE None]
    /\ model = None
    /\ cache = <<>>
    /\ src = NoSrc
    /\ ret = NoRet

\* reading the attribute `slot` of property `prop` through its getter
DoRead(prop, slot, r) ==
    /\ r.c = cache \/ Cardinality(DOMAIN cache) < MaxStashed
    /\ cache' = r.c
    /\ LET again == ret.op = "set" /\ slot \in ret.cleared
       IN  ret' = [NoRet EXCEPT !.op = "read", !.prop = prop, !.slot = slot,
                                !.out = IF r.ok THEN Sparse(r.out) ELSE ErrorV,
                                !.built = r.built, !.again = again,
                                !.same = again /\ ret.same]
    /\ UNCHANGED <<cls, val, pmap, model, src>>

\* type(x): the value without its entries
TypeOf(x) == [x EXCEPT !.a = <<>>]

\* calling a derivative of property `prop`: ret keeps the type of the result
\* and whether neither u nor v was Zero
DoDeriv(prop, u, v, r) ==
    /\ r.c = cache \/ Cardinality(DOMAIN cache) < MaxStashed
    /\ cache' = r.c
    /\ ret' = [NoRet EXCEPT !.op = "deriv", !.prop = prop, !.out = TypeOf(r.out),
                            !.live = (~IsZero(u) /\ ~IsZero(v))]
    /\ UNCHANGED <<cls, val, pmap, model, src>>

\* the getter that owns a stash name, called on the stash c
Getter(c, slot) ==
    LET arg == slot[2]
    IN  CASE slot[1] = "_Mcc_" -> Mcc_prop(c, arg)
          [] slot[1] = "_Mn_" -> Mn_prop(c, arg)
          [] slot[1] = "_Mf_" -> Mf_prop(c, arg)
          [] slot[1] = "_Me_" -> Me_prop(c, arg)
          [] slot[1] = "_MccI_" -> MccI_prop(c, arg)
          [] slot[1] = "_MnI_" -> MnI_prop(c, arg)
          [] slot[1] = "_MfI_" -> MfI_prop(c, arg)
          [] slot[1] = "_MeI_" -> MeI_prop(c, arg)
          [] slot[1] = "__Mf_" -> Surface_Mf_prop(c, arg)
          [] slot[1] = "__MfI_" -> Surface_MfI_prop(c, arg)
          [] slot[1] = "__Me_" /\ arg = "Tau" -> Surface_Me_prop(c, arg)
          [] slot[1] = "__MeI_" /\ arg = "Tau" -> Surface_MeI_prop(c, arg)
          [] slot[1] = "__Me_" /\ arg # "Tau" -> Line_Me_prop(c, arg)
          [] slot[1] = "__MeI_" /\ arg # "Tau" -> Line_MeI_prop(c, arg)

\* the derivative function that goes with a getter: Mcc<Prop>Deriv with
\* Mcc<Prop>, Mcc<Prop>IDeriv with Mcc<Prop>I, ...
DerivOf(c, slot, u, v, adjoint) ==
    LET arg == slot[2]
    IN  CASE slot[1] = "_Mcc_" -> MccDeriv_prop(c, arg, u, v, adjoint)
          [] slot[1] = "_Mn_" -> MnDeriv_prop(c, arg, u, v, adjoint)
          [] slot[1] = "_Mf_" -> MfDeriv_prop(c, arg, u, v, adjoint)
          [] slot[1] = "_Me_" -> MeDeriv_prop(c, arg, u, v, adjoint)
          [] slot[1] = "_MccI_" -> MccIDeriv_prop(c, arg, u, v, adjoint)
          [] slot[1] = "_MnI_" -> MnIDeriv_prop(c, arg, u, v, adjoint)
          [] slot[1] = "_MfI_" -> MfIDeriv_prop(c, arg, u, v, adjoint)
          [] slot[1] = "_MeI_" -> MeIDeriv_prop(c, arg, u, v, adjoint)
          [] slot[1] = "__Mf_" -> Surface_MfDeriv_prop(c, arg, u, v, adjoint)
          [] slot[1] = "__MfI_" -> Surface_MfIDeriv_prop(c, arg, u, v, adjoint)
          [] slot[1] = "__Me_" /\ arg = "Tau" -> Surface_MeDeriv_prop(c, arg, u, v, adjoint)
          [] slot[1] = "__MeI_" /\ arg = "Tau" -> Surface_MeIDeriv_prop(c, arg, u, v, adjoint)
          [] slot[1] = "__Me_" /\ arg # "Tau" -> Line_MeDeriv_prop(c, arg, u, v, adjoint)
          [] slot[1] = "__MeI_" /\ arg # "Tau" -> Line_MeIDeriv_prop(c, arg, u, v, adjoint)

\* the length of the fields a matrix acts on: cells, nodes, faces or edges
OutLen(slot) ==
    CASE slot[1] \in {"_Mcc_", "_MccI_"} -> n_cells
      [] slot[1] \in {"_Mn_", "_MnI_"} -> n_nodes
      [] slot[1] \in {"_Mf_", "_MfI_", "__Mf_", "__MfI_"} -> n_faces
      [] slot[1] \in {"_Me_", "_MeI_", "__Me_", "__MeI_"} -> n_edges

\* sim.Mcc<Prop>, Mn<Prop>, Mf<Prop>, Me<Prop> and their I forms
ReadProperty ==
    \E arg \in StdArgs :
    \E prefix \in {"_Mcc_", "_Mn_", "_Mf_", "_Me_", "_MccI_", "_MnI_", "_MfI_", "_MeI_"} :
        DoRead(Lower(arg), Stash(prefix, arg), Getter(cache, Stash(prefix, arg)))

\* sim._Mf<Prop>, _Me<Prop> and their I forms of a surface property
ReadSurfaceProperty ==
    \E arg \in SurfaceArgs : \E prefix \in {"__Mf_", "__Me_", "__MfI_", "__MeI_"} :
        DoRead(Lower(arg), Stash(prefix, arg), Getter(cache, Stash(prefix, arg)))

\* sim._Me<Prop> and _Me<Prop>I of a line property
ReadLineProperty ==
    \E arg \in LineArgs : \E prefix \in {"__Me_", "__MeI_"} :
        DoRead(Lower(arg), Stash(prefix, arg), Getter(cache, Stash(prefix, arg)))

\* sim.Mcc<Prop>Deriv(u, v, adjoint), ..., sim.Me<Prop>IDeriv(u, v, adjoint)
CallPropertyDeriv ==
    \E arg \in StdArgs, adjoint \in BOOLEAN :
    \E prefix \in {"_Mcc_", "_Mn_", "_Mf_", "_Me_", "_MccI_", "_MnI_", "_MfI_", "_MeI_"} :
    \E u \in Fields(OutLen(Stash(prefix, arg))),
       v \in Directions(DirLen(OutLen(Stash(prefix, arg)), adjoint)) :
        DoDeriv(Lower(arg), u, v, DerivOf(cache, Stash(prefix, arg), u, v, adjoint))

\* the derivatives of a surface property
CallSurfacePropertyDeriv ==
    \E arg \in SurfaceArgs, adjoint \in BOOLEAN :
    \E prefix \in {"__Mf_", "__Me_", "__MfI_", "__MeI_"} :
    \E u \in Fields(OutLen(Stash(prefix, arg))),
       v \in Directions(DirLen(OutLen(Stash(prefix, arg)), adjoint)) :
        DoDeriv(Lower(arg), u, v, DerivOf(cache, Stash(prefix, arg), u, v, adjoint))

\* the derivatives of a line property
CallLinePropertyDeriv ==
    \E arg \in LineArgs, adjoint \in BOOLEAN :
    \E prefix \in {"__Me_", "__MeI_"} :
    \E u \in Fields(OutLen(Stash(prefix, arg))),
       v \in Directions(DirLen(OutLen(Stash(prefix, arg)), adjoint)) :
        DoDeriv(Lower(arg), u, v, DerivOf(cache, Stash(prefix, arg), u, v, adjoint))

ReadMeSigmaTauKappa ==
    /\ cls = "Conductance"
    /\ DoRead("", MeSigmaTauKappaName, MeSigmaTauKappa(cache))

ReadMeSigmaTauKappaI ==
    /\ cls = "Conductance"
    /\ DoRead("", MeSigmaTauKappaIName, MeSigmaTauKappaI(cache))

CallMeSigmaTauKappaDeriv ==
    /\ cls = "Conductance"
    /\ \E adjoint \in BOOLEAN :
       \E u \in Fields(n_edges), v \in Directions(DirLen(n_edges, adjoint)) :
          DoDeriv("", u, v, MeSigmaTauKappaDeriv(cache, u, v, adjoint))

CallMeSigmaTauKappaIDeriv ==
    /\ cls = "Conductance"
    /\ \E adjoint \in BOOLEAN :
       \E u \in Fields(n_edges), v \in Directions(DirLen(n_edges, adjoint)) :
          DoDeriv("", u, v, MeSigmaTauKappaIDeriv(cache, u, v, adjoint))

\* self.<p> = x: the array becomes the pair's stored one, then the class's
\* __setattr__ clears the stash
SetProp ==
    \E p \in PropsOf(cls) : \E x \in Values(p) :
        /\ val' = [q \in PropsOf(cls) |->
                     IF q = p THEN x ELSE IF q \in Partners(p) THEN None ELSE val[q]]
        /\ pmap' = [q \in PropsOf(cls) |-> IF q \in Partners(p) THEN NoMap ELSE pmap[q]]
        /\ cache' = class_setattr(cache, p)
        /\ ret' = [NoRet EXCEPT !.op = "set", !.prop = p,
                                !.cleared = Cleared(cache, cache'),
                                !.same = (Prop(p) = Ok(x))]
        /\ UNCHANGED <<cls, model, src>>

\* a setter of <p>Map that stores whatever it is given
MapSetter_stores_any(pm, p, m) ==
    [ok |-> TRUE, pmap |-> [pm EXCEPT ![p] = m]]

\* the setter of <p>Map on the maps pm: a map for a property whose reciprocal
\* partner has one is rejected, anything else (None too) is stored
MapSetter(pm, p, m) ==
    IF m # NoMap /\ HasReciprocal(p) /\ pm[Reciprocal(p)] # NoMap
    THEN [ok |-> FALSE, pmap |-> pm]
    ELSE [ok |-> TRUE, pmap |-> [pm EXCEPT ![p] = m]]

\* self.<p>Map = m: rejected when the partner is mapped; else the property
\* is read through the map from now on
AssignMap(p, m) ==
    IF ~MapSetter(pmap, p, m).ok
    THEN /\ ret' = [NoRet EXCEPT !.op = "setmap", !.prop = p, !.out = ErrorV]
         /\ UNCHANGED <<cls, val, pmap, model, cache, src>>
    ELSE /\ pmap' = MapSetter(pmap, p, m).pmap
         /\ val' = [q \in PropsOf(cls) |->
                      IF m # NoMap /\ q \in Partners(p) THEN None ELSE val[q]]
         /\ cache' = class_setattr(cache, MapName(p))
         /\ ret' = [NoRet EXCEPT !.op = "setmap", !.prop = p,
                                 !.cleared = Cleared(cache, cache')]
         /\ UNCHANGED <<cls, model, src>>

\* the map of a mapped property is assigned again
SetMap ==
    \E p \in PropsOf(cls) : \E m \in Maps : pmap[p] # NoMap /\ AssignMap(p, m)

\* self.model = m
SetModel ==
    \E m \in Models :
        /\ model' = m
        /\ cache' = class_setattr(cache, "model")
        /\ ret' = [NoRet EXCEPT !.op = "model",
                                !.cleared = Cleared(cache, cache')]
        /\ UNCHANGED <<cls, val, pmap, src>>

Reads ==
    \/ ReadProperty
    \/ ReadSurfaceProperty
    \/ ReadLineProperty
    \/ ReadMeSigmaTauKappa
    \/ ReadMeSigmaTauKappaI

Derivs ==
    \/ CallPropertyDeriv
    \/ CallSurfacePropertyDeriv
    \/ CallLinePropertyDeriv
    \/ CallMeSigmaTauKappaDeriv
    \/ CallMeSigmaTauKappaIDeriv

\* a simulation built with its maps, whose model and maps are assigned and
\* whose matrices are read
Next ==
    \/ Reads
    \/ SetMap
    \/ SetModel

Spec == Init /\ [][Next]_vars

\* a simulation built with its maps, whose model is assigned and whose
\* derivatives are called
NextDeriv ==
    \/ Derivs
    \/ SetModel

SpecDeriv == Init /\ [][NextDeriv]_vars

\* a simulation built with the defaults, whose properties are assigned and
\* whose matrices are read
NextAssign ==
    \/ Reads
    \/ SetProp

SpecAssign == InitDefault /\ [][NextAssign]_vars

\* a simulation built with the defaults, whose properties are assigned and
\* whose derivatives are called
NextDefault ==
    \/ Derivs
    \/ SetProp

SpecDefault == InitDefault /\ [][NextDefault]_vars

(***************************************************************************)
(* The constructors.  The run starts before __init__ with the maps handed  *)
(* to it (ret.op = "args"); __init__ assigns them one after the other, and *)
(* the object is there (ret.op = "new") unless an assignment raised.       *)
(***************************************************************************)
\* the order in which __init__ assigns the maps
MapOrder(c) ==
    IF c = "Electrical" THEN <<"sigma", "rho">>
    ELSE IF c = "Magnetic" THEN <<"mu", "mui">>
    ELSE <<"sigma", "rho", "tau", "kappa", "kappai">>

\* self.<p>Map = maps[p] for the first k properties of `order`, on an object
\* without maps
RECURSIVE AssignMaps(_, _, _)
AssignMaps(order, maps, k) ==
    IF k = 0 THEN [ok |-> TRUE, pmap |-> [p \in DOMAIN maps |-> NoMap]]
    ELSE LET before == AssignMaps(order, maps, k - 1)
         IN  IF ~before.ok THEN before
             ELSE MapSetter(before.pmap, order[k], maps[order[k]])

InitConstruct ==
    /\ cls \in Classes
    /\ val = [p \in PropsOf(cls) |-> None]
    /\ pmap = [p \in PropsOf(cls) |-> NoMap]
    /\ model = None
    /\ cache = <<>>
    /\ src = NoSrc
    /\ \E maps \in [PropsOf(cls) -> InitMaps \cup {NoMap}] :
          ret = [op |-> "args", maps |-> maps, prop |-> "", out |-> NoneV]

\* __init__(mesh, sigma=..., sigmaMap=..., rho=..., rhoMap=..., ...): the
\* arrays are the defaults where no map of the pair is given
Construct ==
    /\ ret.op = "args"
    /\ pmap' = AssignMaps(MapOrder(cls), ret.maps, Len(MapOrder(cls))).pmap
    /\ IF AssignMaps(MapOrder(cls), ret.maps, Len(MapOrder(cls))).ok
       THEN /\ val' = [p \in PropsOf(cls) |->
                         IF \E q \in Partners(p) : pmap'[q] # NoMap THEN None
                         ELSE IF p \in {"sigma", "mu"} THEN ArrayA(PropLen(p))
                         ELSE IF p = "kappa" THEN Zeros(PropLen(p))
                         ELSE None]
            /\ ret' = [ret EXCEPT !.op = "new"]
       ELSE /\ val' = val
            /\ ret' = [ret EXCEPT !.op = "failed", !.out = ErrorV]
    /\ UNCHANGED <<cls, model, cache, src>>

\* sim.<p>Map = m on the object built, m a map or None
SetAnyMap ==
    /\ ret.op \notin {"args", "failed"}
    /\ \E p \in PropsOf(cls) : \E m \in Maps \cup {NoMap} : AssignMap(p, m)

\* sim.<p> = x on the object built
SetAnyProp ==
    /\ ret.op \notin {"args", "failed"}
    /\ SetProp

NextConstruct ==
    \/ Construct
    \/ SetAnyMap
    \/ SetAnyProp

SpecConstruct == InitConstruct /\ [][NextConstruct]_vars

(***************************************************************************)
(* The derivatives with their values.  ret keeps the method called (by the *)
(* stash name of the matrix it differentiates), its arguments and the      *)
(* array or matrix it returned.                                            *)
(***************************************************************************)
\* the matrices of the class that have a derivative method
DerivSlots ==
    {Stash(prefix, arg) :
        prefix \in {"_Mcc_", "_Mn_", "_Mf_", "_Me_", "_MccI_", "_MnI_", "_MfI_", "_MeI_"},
        arg \in StdArgs}
    \cup {Stash(prefix, arg) :
            prefix \in {"__Mf_", "__Me_", "__MfI_", "__MeI_"}, arg \in SurfaceArgs}
    \cup {Stash(prefix, arg) : prefix \in {"__Me_", "__MeI_"}, arg \in LineArgs}
    \cup (IF cls = "Conductance" THEN {MeSigmaTauKappaName, MeSigmaTauKappaIName}
          ELSE {})

\* sim.<X>Deriv(u, v, adjoint) for the matrix X stashed under `slot`
DerivAt(c, slot, u, v, adjoint) ==
    IF slot = MeSigmaTauKappaName THEN MeSigmaTauKappaDeriv(c, u, v, adjoint)
    ELSE IF slot = MeSigmaTauKappaIName THEN MeSigmaTauKappaIDeriv(c, u, v, adjoint)
    ELSE DerivOf(c, slot, u, v, adjoint)

\* the number of rows of the matrix stashed under `slot`
RowsOf(slot) ==
    IF slot \in {MeSigmaTauKappaName, MeSigmaTauKappaIName} THEN n_edges
    ELSE OutLen(slot)

\* the fields (a 1-D array, an array of one column) and the directions handed
\* to the derivatives here
ValueFields(n) == {Array1(ArrayA(n)), ColumnOf(Array1(ArrayB(n)))}
ValueDirections(n) == {NoneV, Array1(ArrayA(n)), Array1(ArrayB(n))}

\* the matrix whose derivative method <X>Deriv of `slot` ends in: its own for
\* a forward matrix, Mcc<Prop>'s for Mcc<Prop>I, ..., _MeTau's for the two
\* composites
ForwardOf(slot) ==
    CASE slot \in {MeSigmaTauKappaName, MeSigmaTauKappaIName} -> Stash("__Me_", "Tau")
      [] slot[1] = "_MccI_" -> Stash("_Mcc_", slot[2])
      [] slot[1] = "_MnI_" -> Stash("_Mn_", slot[2])
      [] slot[1] = "_MfI_" -> Stash("_Mf_", slot[2])
      [] slot[1] = "_MeI_" -> Stash("_Me_", slot[2])
      [] slot[1] = "__MfI_" -> Stash("__Mf_", slot[2])
      [] slot[1] = "__MeI_" -> Stash("__Me_", slot[2])
      [] OTHER -> slot

\* out = sim.<X>Deriv(u, v, adjoint), r what the call gave; a call starts on
\* a stash below the bound, or on one that holds the derivative map it uses.
\* ret keeps the arguments of a call that returned an array or a matrix, and
\* whether the call built the derivative map it used.
DoEval(slot, u, v, adjoint, r) ==
    /\ \/ Cardinality(DOMAIN cache) < MaxStashed
       \/ StashDeriv(ForwardOf(slot)[1], ForwardOf(slot)[2]) \in DOMAIN cache
    /\ cache' = r.c
    /\ ret' = IF r.out.t \in {"ndarray", "sparse"}
              THEN [op |-> "value", slot |-> slot, u |-> u, v |-> v,
                    adjoint |-> adjoint, out |-> r.out, built |-> r.built]
              ELSE [op |-> "value", slot |-> slot, u |-> NoneV, v |-> NoneV,
                    adjoint |-> FALSE, out |-> r.out, built |-> r.built]
    /\ UNCHANGED <<cls, val, pmap, model, src>>

\* any derivative method of the class, called
EvalDeriv ==
    \E slot \in DerivSlots, adjoint \in BOOLEAN :
    \E u \in ValueFields(RowsOf(slot)),
       v \in ValueDirections(DirLen(RowsOf(slot), adjoint)) :
        DoEval(slot, u, v, adjoint, DerivAt(cache, slot, u, v, adjoint))

\* a simulation built with its maps, whose model is assigned and whose
\* derivatives are evaluated
NextValue ==
    \/ EvalDeriv
    \/ SetModel

SpecValue == Init /\ [][NextValue]_vars

(***************************************************************************)
(* The stash as the getters and the derivatives fill it: any matrix of the *)
(* class is read, any derivative method is called (on one field, without a *)
(* direction), and the model is assigned.                                  *)
(***************************************************************************)
\* the attribute stashed under `slot`, read now
ReadNow(c, slot) ==
    IF slot = MeSigmaTauKappaName THEN MeSigmaTauKappa(c)
    ELSE IF slot = MeSigmaTauKappaIName THEN MeSigmaTauKappaI(c)
    ELSE Getter(c, slot)

\* sim.<X> for any matrix X of the class
ReadAt ==
    \E slot \in DerivSlots :
        DoRead(IF slot[2] = "" THEN "" ELSE Lower(slot[2]), slot, ReadNow(cache, slot))

\* sim.<X>Deriv(u, adjoint=adjoint) for any matrix X of the class
CallAt ==
    \E slot \in DerivSlots, adjoint \in BOOLEAN :
        DoEval(slot, Array1(ArrayA(RowsOf(slot))), NoneV, adjoint,
               DerivAt(cache, slot, Array1(ArrayA(RowsOf(slot))), NoneV, adjoint))

NextLedger ==
    \/ ReadAt
    \/ CallAt
    \/ SetModel

SpecLedger == Init /\ [][NextLedger]_vars

(***************************************************************************)
(* The matrices of the mesh beside those of the properties: both are read, *)
(* properties and the model are assigned.                                  *)
(***************************************************************************)
\* sim.Mcc, ..., sim.MeI, with at most MaxStashed of them stashed
ReadBase ==
    \E name \in BaseMatrices :
        /\ \/ Stash(name, "") \in DOMAIN cache
           \/ Cardinality(DOMAIN cache \cap BaseNames) < MaxStashed
        /\ cache' = Base_getter(cache, name).c
        /\ ret' = [NoRet EXCEPT !.op = "read", !.slot = Stash(name, ""),
                                !.out = Sparse(Base_getter(cache, name).out),
                                !.built = Base_getter(cache, name).built]
        /\ UNCHANGED <<cls, val, pmap, model, src>>

\* sim._Mcc<Prop>: the cell-centred matrix of one standard property, stashed
\* beside the base matrices
ReadMccProperty ==
    \E arg \in StdArgs :
        /\ \/ Mcc_prop(cache, arg).c = cache
           \/ Cardinality(DOMAIN cache \ BaseNames) < MaxStashed
        /\ cache' = Mcc_prop(cache, arg).c
        /\ ret' = [NoRet EXCEPT !.op = "read", !.prop = Lower(arg),
                                !.slot = Stash("_Mcc_", arg),
                                !.out = IF Mcc_prop(cache, arg).ok
                                        THEN Sparse(Mcc_prop(cache, arg).out)
                                        ELSE ErrorV,
                                !.built = Mcc_prop(cache, arg).built]
        /\ UNCHANGED <<cls, val, pmap, model, src>>

NextBase ==
    \/ ReadBase
    \/ ReadMccProperty
    \/ SetProp
    \/ SetModel

SpecBase == Init /\ [][NextBase]_vars

(***************************************************************************)
(* __inner_mat_mul_op on its own: the arguments are drawn when the run     *)
(* starts (ret.op = "args"), then the function is applied to them.         *)
(***************************************************************************)
\* columns of the arrays of several fields or directions
MaxCols == 3

\* the derivative maps M handed to the function: those of the cell-centre
\* matrix (n_cells x n_cells), of the node matrix (n_nodes x n_cells) and of
\* the surface edge matrix (n_edges x n_faces), the property's map the identity
InnerMaps ==
    {MatMul(Diags(cell_volumes), Diags(Ones(n_cells))),
     MatMul(Transpose(aveN2CC), Diags(cell_volumes)),
     get_edge_inner_product_surface_deriv}

\* an array of n rows and k columns: column j is (1 + j, 2 + j, ..), and in
\* the second form (1 * j, 2 * j + 1, ..)
ColumnsA(n, k) == Array2([i \in 1..n |-> [j \in 1..k |-> R(i + j)]])
ColumnsB(n, k) == Array2([i \in 1..n |-> [j \in 1..k |-> R(i * j + i - 1)]])

\* u: a 1-D array (k = 0), or an array of k = 1..MaxCols columns
InnerField(n, k) == IF k = 0 THEN Array1(ArrayA(n)) ELSE ColumnsA(n, k)

\* v: None (k = -1), a 1-D array (k = 0), or an array of k = 1..MaxCols columns
InnerDirection(n, k) ==
    IF k = -1 THEN NoneV ELSE IF k = 0 THEN Array1(ArrayB(n)) ELSE ColumnsB(n, k)

InitInner ==
    /\ cls = "Electrical"
    /\ val = [p \in PropsOf(cls) |-> IF p = "sigma" THEN ArrayA(PropLen(p)) ELSE None]
    /\ pmap = [p \in PropsOf(cls) |-> NoMap]
    /\ model = None
    /\ cache = <<>>
    /\ src = NoSrc
    /\ \E M \in InnerMaps, adjoint \in BOOLEAN :
       \E ku \in 0..MaxCols, kv \in -1..MaxCols :
           ret = [op |-> "args", M |-> M, u |-> InnerField(Len(M), ku),
                  v |-> InnerDirection(IF adjoint THEN Len(M) ELSE NCols(M), kv),
                  adjoint |-> adjoint, out |-> NoneV]

\* out = __inner_mat_mul_op(M, u, v=v, adjoint=adjoint)
CallInner ==
    /\ ret.op = "args"
    /\ ret' = [ret EXCEPT !.op = "inner",
                          !.out = inner_mat_mul_op(ret.M, ret.u, ret.v, ret.adjoint)]
    /\ UNCHANGED <<cls, val, pmap, model, cache, src>>

NextInner == CallInner

SpecInner == InitInner /\ [][NextInner]_vars

(***************************************************************************)
(* electromagnetics/static/resistivity/sources.py: the DC/IP sources.      *)
(* src is the source object: made once Dipole(...) has returned, with its  *)
(* attributes _current, _receiver_list, _rxOrder and _locations.  ret      *)
(* keeps the call, the exception it raised ("" for none) and the object    *)
(* as it was before the call.                                              *)
(***************************************************************************)
MaxRx == 2

\* Python values handed to the current setter
PyFloat(q) == [t |-> "float", num |-> q, s |-> ""]
PyInt(n) == [t |-> "int", num |-> R(n), s |-> ""]
PyStr(s) == [t |-> "str", num |-> R(0), s |-> s]
PyNone == [t |-> "NoneType", num |-> R(0), s |-> ""]

Currents ==
    {PyFloat(<<5, 2>>), PyFloat(<<-1, 1>>), PyFloat(R(0)), PyFloat(<<0, 0>>),
     PyInt(2), PyInt(0), PyStr("3"), PyStr("0.0"), PyStr("abc"), PyNone}

\* float(I): a float or an int converts, a str converts when it spells a
\* number, anything else raises
float(I) ==
    CASE I.t \in {"float", "int"} -> [ok |-> TRUE, out |-> PyFloat(I.num)]
      [] I.t = "str" /\ I.s = "3" -> [ok |-> TRUE, out |-> PyFloat(R(3))]
      [] I.t = "str" /\ I.s = "0.0" -> [ok |-> TRUE, out |-> PyFloat(R(0))]
      [] OTHER -> [ok |-> FALSE, out |-> PyNone]

\* np.abs(I) of a float
np_abs(I) == PyFloat(<<Abs(I.num[1]), I.num[2]>>)

\* the outcome of a setter or of a constructor: the object and the exception
Done(o) == [o |-> o, exc |-> ""]
Raise(o, exc) == [o |-> o, exc |-> exc]

\* a current setter without the test for zero
current_setter_stores_zero(o, I) ==
    IF ~float(I).ok THEN Raise(o, "TypeError")
    ELSE Done([o EXCEPT !.current = float(I).out])

\* BaseSrc.current.setter
current_setter(o, I) ==
    IF ~float(I).ok THEN Raise(o, "TypeError")
    ELSE IF np_abs(float(I).out) = PyFloat(R(0)) THEN Raise(o, "TypeError")
    ELSE Done([o EXCEPT !.current = float(I).out])

\* the receivers, each with its _uid, and an object that is not a receiver
Receivers == {"rx1", "rx2", "rx3"}
NotRx == "str"
uid(rx) == [rx1 |-> "uid-a", rx2 |-> "uid-b", rx3 |-> "uid-c"][rx]

\* what is assigned to receiver_list: a receiver, a list, a tuple or None
RxLists == UNION {[1..n -> Receivers \cup {NotRx}] : n \in 0..MaxRx}
RxValues ==
    {[t |-> "BaseRx", items |-> <<rx>>] : rx \in Receivers}
    \cup {[t |-> "list", items |-> l] : l \in RxLists}
    \cup {[t |-> "tuple", items |-> <<"rx1", "rx2">>], [t |-> "NoneType", items |-> <<>>]}

\* dict.setdefault(key, value); a dict is the set of its <<key, value>> items
setdefault(d, key, value) ==
    IF \E kv \in d : kv[1] = key THEN d ELSE d \cup {<<key, value>>}

\* [self._rxOrder.setdefault(rx._uid, ii) for ii, rx in enumerate(new_list)]
\* from item k on: an item without _uid raises AttributeError
RECURSIVE fill_rxOrder(_, _, _)
fill_rxOrder(o, new_list, k) ==
    IF k > Len(new_list) THEN Done(o)
    ELSE IF new_list[k] \notin Receivers THEN Raise(o, "AttributeError")
    ELSE fill_rxOrder([o EXCEPT !.rxOrder = setdefault(@, uid(new_list[k]), k - 1)],
                      new_list, k + 1)

\* len(set(new_list)) == len(new_list)
is_unique(new_list) ==
    Cardinality({new_list[k] : k \in 1..Len(new_list)}) = Len(new_list)

\* the rest of the setter, once new_list is a list
store_receiver_list(o, new_list) ==
    LET r == fill_rxOrder([o EXCEPT !.rxOrder = {}], new_list, 1)
    IN  IF r.exc # "" THEN r
        ELSE Done([r.o EXCEPT !.receiver_list = new_list])

\* a setter that empties _rxOrder before it looks at the new list
receiver_list_setter_clears_first(o, new_list) ==
    LET o1 == [o EXCEPT !.rxOrder = {}]
    IN  IF new_list.t \notin {"BaseRx", "list"} THEN Raise(o1, "TypeError")
        ELSE IF ~is_unique(new_list.items) THEN Raise(o1, "AssertionError")
        ELSE store_receiver_list(o1, new_list.items)

\* BaseSrc.receiver_list.setter
receiver_list_setter(o, new_list) ==
    IF new_list.t \notin {"BaseRx", "list"} THEN Raise(o, "TypeError")
    ELSE IF ~is_unique(new_list.items) THEN Raise(o, "AssertionError")
    ELSE store_receiver_list(o, new_list.items)

\* electrode locations: a float, or arrays of one, two and three coordinates
LocScalar == [t |-> "float", nd |-> 0, a |-> <<R(1)>>]
Loc1 == Array1(<<R(2)>>)
LocA == Array1(<<R(0), R(0)>>)
LocB == Array1(<<R(1), R(0)>>)
Loc3 == Array1(<<R(0), R(0), R(0)>>)

\* np.atleast_1d(x) and x.shape
atleast_1d(x) == IF x.nd = 0 THEN Array1(x.a) ELSE x
shape(x) == IF x.nd = 0 THEN <<>> ELSE <<Len(x.a)>>

\* a setter that keeps any two locations
location_setter_any_shape(o, locs) ==
    IF Len(locs) # 2 THEN Raise(o, "ValueError")
    ELSE Done([o EXCEPT !.locations = <<atleast_1d(locs[1]), atleast_1d(locs[2])>>])

\* Dipole.location.setter
location_setter(o, locs) ==
    IF Len(locs) # 2 THEN Raise(o, "ValueError")
    ELSE IF shape(atleast_1d(locs[1])) # shape(atleast_1d(locs[2]))
    THEN Raise(o, "ValueError")
    ELSE Done([o EXCEPT !.locations = <<atleast_1d(locs[1]), atleast_1d(locs[2])>>])

\* survey.BaseSrc.__init__(receiver_list, location): the two are assigned
\* through the setters, no receiver list standing for the empty list; a Pole
\* has no location setter of its own and keeps the one location it is given
survey_BaseSrc_init(o, receiver_list, location) ==
    LET r == receiver_list_setter(o, IF receiver_list.t = "NoneType"
                                      THEN [t |-> "list", items |-> <<>>]
                                      ELSE receiver_list)
    IN  IF r.exc # "" THEN r
        ELSE IF o.type = "Pole" THEN Done([r.o EXCEPT !.locations = <<location>>])
        ELSE location_setter(r.o, location)

\* BaseSrc.__init__(receiver_list, location, current)
BaseSrc_init(o, receiver_list, location, current) ==
    LET r == survey_BaseSrc_init(o, receiver_list, location)
    IN  IF r.exc # "" THEN r ELSE current_setter(r.o, current)

\* what is given as location: lists of one, two and three locations
LocationLists ==
    {<<LocA, LocB>>, <<LocScalar, Loc1>>, <<LocA>>, <<LocA, Loc3>>, <<LocScalar, LocB>>,
     <<LocA, LocB, LocA>>}

\* the arguments of Dipole(...): an absent location is None (<<>>), kwargs
\* is the set of the other keywords given
NoLoc == <<>>
DipoleArgs ==
    [receiver_list : {[t |-> "NoneType", items |-> <<>>],
                      [t |-> "list", items |-> <<"rx1", "rx2">>],
                      [t |-> "list", items |-> <<"rx1", "rx1">>]},
     location_a : {NoLoc, <<LocA>>},
     location_b : {NoLoc, <<LocB>>, <<Loc3>>},
     location : {NoLoc} \cup {<<locs>> : locs \in LocationLists},
     kwargs : {{}, {"locationA"}, {"locationB"}},
     current : {PyFloat(R(1)), PyInt(0)}]

\* a constructor that takes location_a alone
Dipole_init_no_checks(o, a) ==
    IF "locationA" \in a.kwargs THEN Raise(o, "TypeError")
    ELSE IF "locationB" \in a.kwargs THEN Raise(o, "TypeError")
    ELSE IF a.location_a # NoLoc /\ a.location_b # NoLoc /\ a.location = NoLoc
    THEN BaseSrc_init(o, a.receiver_list, <<a.location_a[1], a.location_b[1]>>, a.current)
    ELSE IF a.location = NoLoc THEN Raise(o, "AttributeError")
    ELSE BaseSrc_init(o, a.receiver_list, a.location[1], a.current)

\* Dipole.__init__
Dipole_init(o, a) ==
    IF "locationA" \in a.kwargs THEN Raise(o, "TypeError")
    ELSE IF "locationB" \in a.kwargs THEN Raise(o, "TypeError")
    ELSE IF a.location_a # NoLoc /\ a.location_b = NoLoc THEN Raise(o, "ValueError")
    ELSE IF a.location_a # NoLoc /\ a.location # NoLoc THEN Raise(o, "ValueError")
    ELSE IF a.location_a # NoLoc
    THEN BaseSrc_init(o, a.receiver_list, <<a.location_a[1], a.location_b[1]>>, a.current)
    ELSE IF a.location = NoLoc THEN Raise(o, "AttributeError")
    ELSE BaseSrc_init(o, a.receiver_list, a.location[1], a.current)

\* the object __new__ hands to __init__
NewSrc == [made |-> TRUE, type |-> "Dipole", current |-> PyNone, receiver_list |-> <<>>,
           rxOrder |-> {}, locations |-> <<>>, q |-> NoneV]

SrcRet(op, arg, r) == [op |-> op, arg |-> arg, exc |-> r.exc, before |-> src]

\* src = Dipole(**a), until one call returns: the name is bound when __init__
\* returns
NewDipole ==
    /\ ~src.made
    /\ \E a \in DipoleArgs :
        /\ src' = IF Dipole_init(NewSrc, a).exc = "" THEN Dipole_init(NewSrc, a).o ELSE src
        /\ ret' = SrcRet("Dipole", a, Dipole_init(NewSrc, a))
        /\ UNCHANGED <<cls, val, pmap, model, cache>>

\* src.current = I
SetCurrent ==
    /\ src.made
    /\ \E I \in Currents :
        /\ src' = current_setter(src, I).o
        /\ ret' = SrcRet("current", I, current_setter(src, I))
    /\ UNCHANGED <<cls, val, pmap, model, cache>>

\* src.receiver_list = new_list
SetReceiverList ==
    /\ src.made
    /\ \E new_list \in RxValues :
        /\ src' = receiver_list_setter(src, new_list).o
        /\ ret' = SrcRet("receiver_list", new_list, receiver_list_setter(src, new_list))
    /\ UNCHANGED <<cls, val, pmap, model, cache>>

\* src.location = locs
SetLocation ==
    /\ src.made
    /\ src.type = "Dipole"
    /\ \E locs \in LocationLists :
        /\ src' = location_setter(src, locs).o
        /\ ret' = SrcRet("location", locs, location_setter(src, locs))
    /\ UNCHANGED <<cls, val, pmap, model, cache>>

InitSource ==
    /\ cls = "Electrical"
    /\ val = [p \in PropsOf(cls) |-> None]
    /\ pmap = [p \in PropsOf(cls) |-> NoMap]
    /\ model = None
    /\ cache = <<>>
    /\ src = NoSrc
    /\ ret = [op |-> "init", arg |-> <<>>, exc |-> "", before |-> NoSrc]

NextSource ==
    \/ NewDipole
    \/ SetCurrent
    \/ SetReceiverList
    \/ SetLocation

SpecSource == InitSource /\ [][NextSource]_vars

(***************************************************************************)
(* Dipole.eval and Pole.eval: the source term on the mesh of a simulation. *)
(* A mesh is the increasing sequence of the nodes of a 1-D tensor mesh.    *)
(***************************************************************************)
RSub(a, b) == RAdd(a, RNeg(b))

RAbs(a) == <<Abs(a[1]), a[2]>>

\* a <= b, both finite
RLe(a, b) == a[1] * b[2] <= b[1] * a[2]

\* the simulations handed to eval: _formulation and mesh
Meshes == {<<R(0), R(1), R(3)>>, <<R(0), R(2), R(3)>>}
Sims == [formulation : {"HJ", "EB"}, mesh : Meshes]

\* mesh.nC, mesh.cell_centers
nC(mesh) == Len(mesh) - 1
cell_centers(mesh) == [i \in 1..nC(mesh) |-> RMul(<<1, 2>>, RAdd(mesh[i], mesh[i + 1]))]

\* np.argmin of the distances from x to the grid: the first of the nearest
argmin_dist(grid, x) ==
    CHOOSE i \in 1..Len(grid) :
        /\ \A j \in 1..Len(grid) : RLe(RAbs(RSub(grid[i], x)), RAbs(RSub(grid[j], x)))
        /\ \A j \in 1..(i - 1) : ~RLe(RAbs(RSub(grid[j], x)), RAbs(RSub(grid[i], x)))

\* closest_points_index(mesh, locs, gridLoc="CC"): one cell per location (from
\* 1 here); a location of another dimension than the mesh raises
closest_points_index(mesh, locs) ==
    IF \E k \in 1..Len(locs) : Len(locs[k].a) # 1 THEN [ok |-> FALSE, inds |-> <<>>]
    ELSE [ok |-> TRUE,
          inds |-> [k \in 1..Len(locs) |-> argmin_dist(cell_centers(mesh), locs[k].a[1])]]

\* the weight of node j at x: linear between the neighbouring nodes
hat(mesh, j, x) ==
    IF j > 1 /\ RLe(mesh[j - 1], x) /\ RLe(x, mesh[j])
    THEN RMul(RSub(x, mesh[j - 1]), RInv(RSub(mesh[j], mesh[j - 1])))
    ELSE IF j < Len(mesh) /\ RLe(mesh[j], x) /\ RLe(x, mesh[j + 1])
    THEN RMul(RSub(mesh[j + 1], x), RInv(RSub(mesh[j + 1], mesh[j])))
    ELSE R(0)

\* mesh.get_interpolation_matrix(loc, location_type="N").toarray(): one row
get_interpolation_matrix(mesh, loc) ==
    IF Len(loc.a) # 1 THEN [ok |-> FALSE, m |-> <<>>]
    ELSE [ok |-> TRUE, m |-> <<[j \in 1..Len(mesh) |-> hat(mesh, j, loc.a[1])]>>]

\* q[inds] = vals, item by item
RECURSIVE put(_, _, _, _)
put(q, inds, vals, k) ==
    IF k > Len(inds) THEN q
    ELSE put([q EXCEPT ![inds[k]] = vals[k]], inds, vals, k + 1)

\* the outcome of eval: the object, the exception and what is returned
EvalReturned(o, out) == [o |-> o, exc |-> "", out |-> out]
EvalRaised(o, exc) == [o |-> o, exc |-> exc, out |-> NoneV]

\* an eval that computes the term on every call
Dipole_eval_recomputes(o, sim) ==
    IF sim.formulation = "HJ"
    THEN LET inds == closest_points_index(sim.mesh, o.locations)
             q == put(Zeros(nC(sim.mesh)), inds.inds,
                      <<o.current.num, RNeg(o.current.num)>>, 1)
         IN  IF ~inds.ok THEN EvalRaised(o, "ValueError")
             ELSE EvalReturned([o EXCEPT !.q = Array1(q)], Array1(q))
    ELSE IF sim.formulation = "EB"
    THEN LET qa == get_interpolation_matrix(sim.mesh, o.locations[1])
             qb == get_interpolation_matrix(sim.mesh, o.locations[2])
             q == [j \in 1..Len(sim.mesh) |->
                     RMul(o.current.num, RSub(qa.m[1][j], qb.m[1][j]))]
         IN  IF ~qa.ok \/ ~qb.ok THEN EvalRaised(o, "ValueError")
             ELSE EvalReturned([o EXCEPT !.q = Array2(<<q>>)], Array2(<<q>>))
    ELSE EvalReturned(o, o.q)

\* Dipole.eval(sim)
Dipole_eval(o, sim) ==
    IF o.q # NoneV THEN EvalReturned(o, o.q)
    ELSE IF sim.formulation = "HJ"
    THEN LET inds == closest_points_index(sim.mesh, o.locations)
             q == put(Zeros(nC(sim.mesh)), inds.inds,
                      <<o.current.num, RNeg(o.current.num)>>, 1)
         IN  IF ~inds.ok THEN EvalRaised(o, "ValueError")
             ELSE EvalReturned([o EXCEPT !.q = Array1(q)], Array1(q))
    ELSE IF sim.formulation = "EB"
    THEN LET qa == get_interpolation_matrix(sim.mesh, o.locations[1])
             qb == get_interpolation_matrix(sim.mesh, o.locations[2])
             q == [j \in 1..Len(sim.mesh) |->
                     RMul(o.current.num, RSub(qa.m[1][j], qb.m[1][j]))]
         IN  IF ~qa.ok \/ ~qb.ok THEN EvalRaised(o, "ValueError")
             ELSE EvalReturned([o EXCEPT !.q = Array2(<<q>>)], Array2(<<q>>))
    ELSE EvalReturned(o, o.q)

\* Pole.eval(sim); the EB branch passes locType="N", a keyword the installed
\* mesh library takes (accepts_locType) or rejects with TypeError
Pole_eval(o, sim, accepts_locType) ==
    IF o.q # NoneV THEN EvalReturned(o, o.q)
    ELSE IF sim.formulation = "HJ"
    THEN LET inds == closest_points_index(sim.mesh, o.locations)
             q == put(Zeros(nC(sim.mesh)), inds.inds, <<o.current.num>>, 1)
         IN  IF ~inds.ok THEN EvalRaised(o, "ValueError")
             ELSE EvalReturned([o EXCEPT !.q = Array1(q)], Array1(q))
    ELSE IF sim.formulation = "EB"
    THEN LET m == get_interpolation_matrix(sim.mesh, o.locations[1])
             q == [j \in 1..Len(sim.mesh) |-> RMul(o.current.num, m.m[1][j])]
         IN  IF ~accepts_locType THEN EvalRaised(o, "TypeError")
             ELSE IF ~m.ok THEN EvalRaised(o, "ValueError")
             ELSE EvalReturned([o EXCEPT !.q = Array2(<<q>>)], Array2(<<q>>))
    ELSE EvalReturned(o, o.q)

\* Pole.__init__(receiver_list, location, **kwargs)
Pole_init(o, receiver_list, location, current) ==
    BaseSrc_init(o, receiver_list, location, current)

\* src.eval(sim), dispatched on the class of the source
eval(o, sim, accepts_locType) ==
    IF o.type = "Dipole" THEN Dipole_eval(o, sim) ELSE Pole_eval(o, sim, accepts_locType)

\* src.eval(sim)
EvalSrc ==
    /\ src.made
    /\ \E sim \in Sims, accepts_locType \in BOOLEAN :
        /\ src' = eval(src, sim, accepts_locType).o
        /\ ret' = [op |-> "eval", arg |-> sim, exc |-> eval(src, sim, accepts_locType).exc,
                   out |-> eval(src, sim, accepts_locType).out]
    /\ UNCHANGED <<cls, val, pmap, model, cache>>

\* a dipole and a pole on the x axis, built with current 1.0
InitEval ==
    /\ cls = "Electrical"
    /\ val = [p \in PropsOf(cls) |-> None]
    /\ pmap = [p \in PropsOf(cls) |-> NoMap]
    /\ model = None
    /\ cache = <<>>
    /\ src \in {Dipole_init(NewSrc, [receiver_list |-> [t |-> "NoneType", items |-> <<>>],
                                     location_a |-> NoLoc, location_b |-> NoLoc,
                                     location |-> <<<<LocScalar, Loc1>>>>,
                                     kwargs |-> {}, current |-> PyFloat(R(1))]).o,
                Pole_init([NewSrc EXCEPT !.type = "Pole"],
                          [t |-> "NoneType", items |-> <<>>], Loc1, PyFloat(R(1))).o}
    /\ ret = [op |-> "init", arg |-> <<>>, exc |-> "", out |-> NoneV]

\* a source whose current and location are reassigned between its evals
NextEval ==
    \/ EvalSrc
    \/ SetCurrent
    \/ SetLocation

SpecEval == InitEval /\ [][NextEval]_vars

(***************************************************************************)
(* The properties.                                                         *)
(***************************************************************************)
\* the matrix the getter builds now on an object that has nothing stashed
Rebuilt(slot) == Sparse(Getter(<<>>, slot).out)

\* the stash entries that belong to property p
SlotsOf(c, p) == {s \in DOMAIN c : s[2] = Capitalize(p)}

CompositeNames == {MeSigmaTauKappaName, MeSigmaTauKappaIName, MeSigmaTauKappaDerivName}

\* C1: whatever assignments and reads came before, a read of a property's
\* mass matrix or inverse returns the matrix built from the property's value
\* at the time of the read
C1_CacheCoherence ==
    (ret.op = "read" /\ ret.prop # "" /\ ret.out # ErrorV)
        => ret.out = Rebuilt(ret.slot)

\* a read of an entry that the assignment just before, of another value than
\* the property had, deleted
C1_Witness ==
    /\ ret.op = "read" /\ ret.prop # "" /\ ret.out # ErrorV
    /\ ret.again /\ ~ret.same

\* C2: assigning a value to property P leaves no stash entry of P, also when
\* the value equals the old one, and the next read of a deleted entry builds
\* a new object
C2_AssignmentClears ==
    /\ ret.op = "set" => SlotsOf(cache, ret.prop) = {}
    /\ (ret.op = "read" /\ ret.again /\ ret.out # ErrorV) => ret.built

\* a read that built its matrix anew after an assignment of the same value
\* deleted the entry
C2_Witness ==
    ret.op = "read" /\ ret.again /\ ret.same /\ ret.built

\* C3: a read of an entry that is set returns the stored object, builds
\* nothing and leaves the stash as it was
C3_ReferentialStability ==
    [][(ret'.op = "read" /\ ret'.slot \in DOMAIN cache)
          => /\ cache' = cache
             /\ ~ret'.built
             /\ ret'.out = Sparse(cache[ret'.slot])]_vars

\* a read of the line decorator's edge matrix returned the stored object
C3_Witness ==
    /\ ret.op = "read" /\ ret.slot = Stash("__Me_", "Kappa")
    /\ ~ret.built /\ ret.out # ErrorV

\* C4: assigning the map of property P leaves no stash entry of P, as
\* assigning P's value does
C4_MapAssignmentClears ==
    (ret.op = "setmap" /\ ret.out # ErrorV) => SlotsOf(cache, ret.prop) = {}

\* C5: assigning either member of a reciprocal pair leaves no stash entry of
\* either member
C5_ReciprocalClears ==
    (ret.op = "set" /\ HasReciprocal(ret.prop))
        => \A q \in Partners(ret.prop) : SlotsOf(cache, q) = {}

\* an assignment deleted an entry of the assigned property's partner
C5_Witness ==
    /\ ret.op = "set" /\ HasReciprocal(ret.prop)
    /\ \E s \in ret.cleared : s[2] = Capitalize(Reciprocal(ret.prop))

C7_CompositeCleared ==
    (ret.op = "set" /\ cls = "Conductance")
        => /\ DOMAIN cache \cap CompositeNames = {}
           /\ \A q \in PropsOf("Conductance") : SlotsOf(cache, q) = {}

\* an assignment to kappa deleted the stashed composite and the edge matrix
\* of sigma
C7_Witness ==
    /\ ret.op = "set" /\ cls = "Conductance" /\ ret.prop = "kappa"
    /\ MeSigmaTauKappaName \in ret.cleared
    /\ Stash("_Me_", "Sigma") \in ret.cleared

\* C8: in BaseConductancePDESimulation with at least one of the five maps
\* set, no composite entry is left once the model has been assigned
C8_CompositeClearedOnModelUpdate ==
    (ret.op = "model" /\ cls = "Conductance" /\ \E p \in PropsOf(cls) : pmap[p] # NoMap)
        => DOMAIN cache \cap {MeSigmaTauKappaName, MeSigmaTauKappaIName} = {}

\* C9: a read of _MeSigmaTauKappa is the sum of the edge matrices of sigma,
\* tau and kappa as built from their current values
C9_CompositeAdditivity ==
    (ret.op = "read" /\ ret.slot = MeSigmaTauKappaName /\ ret.out # ErrorV)
        => ret.out = Sparse(MatAdd(MatAdd(
                         get_edge_inner_product(Prop("sigma").v, FALSE),
                         get_edge_inner_product_surface(Prop("tau").v, FALSE)),
                         get_edge_inner_product_line(Prop("kappa").v, FALSE)))

\* the composite read again after an assignment deleted it, with kappa not
\* the default
C9_Witness ==
    /\ ret.op = "read" /\ ret.slot = MeSigmaTauKappaName /\ ret.out # ErrorV
    /\ ret.again /\ ~ret.same
    /\ val["kappa"] = ArrayA(n_edges)

\* C10: a derivative of a property that has no map returns Zero, whatever u,
\* v and adjoint
C10_NoMapZero ==
    (ret.op = "deriv" /\ ret.prop # "" /\ pmap[ret.prop] = NoMap) => IsZero(ret.out)

\* a derivative of an unmapped property was called with u and v not Zero, on
\* an object that has a model and a map on another property
C10_Witness ==
    /\ ret.op = "deriv" /\ ret.prop # "" /\ pmap[ret.prop] = NoMap
    /\ ret.live /\ IsZero(ret.out)
    /\ model # None
    /\ \E p \in PropsOf(cls) : ~(p \in Partners(ret.prop)) /\ pmap[p] # NoMap

\* C11: a derivative (forward or inverse, of any support, the composite's
\* included) called with u or v the Zero sentinel returns the Zero sentinel
C11_ZeroShortCircuit ==
    (ret.op = "deriv" /\ ~ret.live) => IsZero(ret.out)

\* a derivative of a mapped property, the model set, was called with a Zero
C11_Witness ==
    /\ ret.op = "deriv" /\ ~ret.live
    /\ ret.prop # "" /\ pmap[ret.prop] # NoMap
    /\ model # None
    /\ IsZero(ret.out)

C13_CompositeOnlyTau ==
    (ret.op = "value" /\ ret.slot \in {MeSigmaTauKappaName, MeSigmaTauKappaIName}) =>
        /\ pmap["tau"] = NoMap => IsZero(ret.out)
        /\ ret.out.t \in {"ndarray", "sparse"} =>
              ret.out = inner_mat_mul_op(
                          MatMul(get_edge_inner_product_surface_deriv, MapMatrix("tau")),
                          IF ret.slot = MeSigmaTauKappaName THEN ret.u
                          ELSE SpMul(cache[MeSigmaTauKappaIName],
                                     SpMul(cache[MeSigmaTauKappaIName], Negate(ret.u))),
                          ret.v, ret.adjoint)

\* a composite derivative returned Zero on an object whose sigma or kappa is
\* mapped and whose model is set
C13_Witness ==
    /\ ret.op = "value" /\ ret.slot \in {MeSigmaTauKappaName, MeSigmaTauKappaIName}
    /\ pmap["tau"] = NoMap
    /\ pmap["sigma"] # NoMap /\ pmap["kappa"] # NoMap
    /\ model # None
    /\ IsZero(ret.out)

\* C14: what the derivative of an inverse matrix MI returns for (u, v,
\* adjoint) is what the forward derivative of the same support returns, with
\* the sign changed, for the field MI (MI u); without adjoint that is
\* -MI (D(forward)(MI u)).  No derivative map of an inverse is ever built:
\* the only derivative maps stashed are those of the forward matrices.
C14_InverseViaForward ==
    (ret.op = "value" /\ SlotKind(ret.slot) = "inverse"
        /\ ret.out.t \in {"ndarray", "sparse"}) =>
        /\ ret.out.t = DerivAt(cache, ForwardOf(ret.slot),
                               SpMul(cache[ret.slot], SpMul(cache[ret.slot], ret.u)),
                               ret.v, ret.adjoint).out.t
        /\ ret.out.a = Negate(DerivAt(cache, ForwardOf(ret.slot),
                                      SpMul(cache[ret.slot], SpMul(cache[ret.slot], ret.u)),
                                      ret.v, ret.adjoint).out).a
        /\ (~ret.adjoint /\ ret.out.t = "ndarray") =>
              ret.out.a = MatVec(cache[ret.slot],
                                 VNeg(DerivAt(cache, ForwardOf(ret.slot),
                                              SpMul(cache[ret.slot], ret.u),
                                              ret.v, FALSE).out.a))
        /\ (~ret.adjoint /\ ret.out.t = "sparse") =>
              ret.out.a = MatMul(cache[ret.slot],
                                 Negate(DerivAt(cache, ForwardOf(ret.slot),
                                                SpMul(cache[ret.slot], ret.u),
                                                ret.v, FALSE).out).a)
        /\ \A s \in DOMAIN cache :
              SlotKind(s) = "deriv" =>
                  /\ s # MeSigmaTauKappaDerivName
                  /\ ForwardOf(Stash(s[1], s[2])) = Stash(s[1], s[2])

\* the derivative of an inverse that is not the identity returned an array
C14_Witness ==
    /\ ret.op = "value" /\ SlotKind(ret.slot) = "inverse"
    /\ ret.out.t = "ndarray" /\ ~ret.adjoint
    /\ cache[ret.slot] # Diags(Ones(Len(cache[ret.slot])))
    /\ \E i \in 1..Len(ret.out.a) : ret.out.a[i] # R(0)

\* the unit vectors of length n
UnitVectors(n) == {[i \in 1..n |-> IF i = k THEN R(1) ELSE R(0)] : k \in 1..n}

\* C15: for a field u of one column and a model direction v, what XDeriv(u,
\* v) returns without adjoint, paired with any output vector w, equals what
\* XDeriv(u, w, adjoint=True) returns, paired with v:
\* dot(w, XDeriv(u, v)) = dot(XDeriv(u, w, adjoint=True), v)
C15_AdjointIdentity ==
    (ret.op = "value" /\ ~ret.adjoint /\ ret.v.t = "ndarray"
        /\ ret.out.t = "ndarray") =>
        \A w \in UnitVectors(RowsOf(ret.slot)) :
            /\ DerivAt(cache, ret.slot, ret.u, Array1(w), TRUE).out.t = "ndarray"
            /\ DerivAt(cache, ret.slot, ret.u, Array1(w), TRUE).out.nd = 1
            /\ Len(DerivAt(cache, ret.slot, ret.u, Array1(w), TRUE).out.a) = Len(ret.v.a)
            /\ ret.out.nd = 1 /\ Len(ret.out.a) = Len(w)
            /\ Dot(w, ret.out.a)
                 = Dot(DerivAt(cache, ret.slot, ret.u, Array1(w), TRUE).out.a, ret.v.a)

\* the derivative of the node matrix (three rows, two columns) returned an
\* array that is not zero, for a direction that is not constant
C15_Witness ==
    /\ ret.op = "value" /\ ~ret.adjoint /\ ret.v = Array1(ArrayA(n_cells))
    /\ ret.slot[1] = "_Mn_"
    /\ ret.out.t = "ndarray"
    /\ \E i \in 1..Len(ret.out.a) : ret.out.a[i] # R(0)

\* C16: without adjoint, for u of k > 1 columns and v of k columns the
\* result has k columns and column i is u[:, i] * (M v[:, i])
C16_PairwiseColumns ==
    (/\ ret.op = "inner" /\ ~ret.adjoint
     /\ ret.u.nd = 2 /\ NCols(ret.u.a) > 1
     /\ ret.v.t = "ndarray" /\ ret.v.nd = 2
     /\ NCols(ret.v.a) = NCols(ret.u.a)) =>
        /\ ret.out.t = "ndarray"
        /\ ret.out.nd = 2
        /\ ret.out.a = [a \in 1..Len(ret.u.a) |-> [i \in 1..NCols(ret.u.a) |->
                          RMul(ret.u.a[a][i], MatMul(ret.M, ret.v.a)[a][i])]]

\* C17: without adjoint, for u of k > 1 columns and one direction v (1-D or
\* of one column) the result has k columns and column i is u[:, i] * (M v)
C17_BroadcastDirection ==
    (/\ ret.op = "inner" /\ ~ret.adjoint
     /\ ret.u.nd = 2 /\ NCols(ret.u.a) > 1
     /\ ret.v.t = "ndarray"
     /\ ret.v.nd = 1 \/ NCols(ret.v.a) = 1) =>
        /\ ret.out.t = "ndarray"
        /\ ret.out.nd = 2
        /\ ret.out.a = [a \in 1..Len(ret.u.a) |-> [i \in 1..NCols(ret.u.a) |->
                          RMul(ret.u.a[a][i], MatVec(ret.M, Squeeze(ret.v).a)[a])]]

\* two fields and a direction of one column gave two columns that differ
C17_Witness ==
    /\ ret.op = "inner" /\ ~ret.adjoint
    /\ ret.u.nd = 2 /\ NCols(ret.u.a) > 1
    /\ ret.v.t = "ndarray" /\ ret.v.nd = 2 /\ NCols(ret.v.a) = 1
    /\ ret.out.t = "ndarray" /\ ret.out.nd = 2
    /\ \E a \in 1..Len(ret.out.a) : ret.out.a[a][1] # ret.out.a[a][2]

\* entry (a, j) of a 1-D array (whatever j) or of a 2-D array of one or of
\* several columns, as numpy broadcasts it
EntryOf(x, a, j) ==
    IF x.nd = 1 THEN x.a[a] ELSE IF NCols(x.a) = 1 THEN x.a[a][1] ELSE x.a[a][j]

\* the number of columns of an array, 0 for a 1-D array and for one column
ColumnsOf(x) == IF x.nd = 1 \/ NCols(x.a) = 1 THEN 0 ELSE NCols(x.a)

\* C18: with adjoint and v given, the result is M.T (u * v); if u has more
\* than one column, u * v is summed over the columns first and the result is
\* one vector of the model's length
C18_AdjointProduct ==
    (/\ ret.op = "inner" /\ ret.adjoint /\ ret.v.t = "ndarray"
     /\ \/ ColumnsOf(ret.u) = 0
        \/ ColumnsOf(ret.v) = 0
        \/ ColumnsOf(ret.u) = ColumnsOf(ret.v)) =>
        /\ ret.out.t = "ndarray"
        /\ ColumnsOf(ret.u) > 0 =>
              /\ ret.out.nd = 1
              /\ Len(ret.out.a) = NCols(ret.M)
              /\ ret.out.a = [j \in 1..NCols(ret.M) |->
                    RSum([a \in 1..Len(ret.M) |->
                            RMul(ret.M[a][j],
                                 RSum([i \in 1..ColumnsOf(ret.u) |->
                                         RMul(EntryOf(ret.u, a, i), EntryOf(ret.v, a, i))],
                                      ColumnsOf(ret.u)))],
                         Len(ret.M))]
        /\ (ColumnsOf(ret.u) = 0 /\ ColumnsOf(ret.v) = 0) =>
              /\ ret.out.nd = 1
              /\ ret.out.a = [j \in 1..NCols(ret.M) |->
                    RSum([a \in 1..Len(ret.M) |->
                            RMul(ret.M[a][j],
                                 RMul(EntryOf(ret.u, a, 1), EntryOf(ret.v, a, 1)))],
                         Len(ret.M))]
        /\ (ColumnsOf(ret.u) = 0 /\ ColumnsOf(ret.v) > 0) =>
              /\ ret.out.nd = 2
              /\ ret.out.a = [j \in 1..NCols(ret.M) |-> [i \in 1..ColumnsOf(ret.v) |->
                    RSum([a \in 1..Len(ret.M) |->
                            RMul(ret.M[a][j],
                                 RMul(EntryOf(ret.u, a, i), EntryOf(ret.v, a, i)))],
                         Len(ret.M))]]

\* with adjoint, two fields and two columns of v gave one vector of the
\* model's length, the map not square
C18_Witness ==
    /\ ret.op = "inner" /\ ret.adjoint
    /\ ColumnsOf(ret.u) > 1 /\ ret.v.t = "ndarray" /\ ColumnsOf(ret.v) = ColumnsOf(ret.u)
    /\ Len(ret.M) # NCols(ret.M)
    /\ ret.out.t = "ndarray" /\ ret.out.nd = 1 /\ Len(ret.out.a) = NCols(ret.M)

\* C19: with v omitted the result is the matrix diag(u) M for a 1-D u, the
\* stack of diag(u[:, i]) M, i = 0..k-1, one under the other for u of k
\* columns; with adjoint it is exactly the transpose of that matrix
C19_OperatorWithoutDirection ==
    (ret.op = "inner" /\ ret.v = NoneV) =>
        /\ ret.out.t = "sparse"
        /\ ~ret.adjoint =>
              ret.out.a =
                [r \in 1..(Len(ret.M) * (IF ColumnsOf(ret.u) = 0 THEN 1 ELSE ColumnsOf(ret.u))) |->
                    [j \in 1..NCols(ret.M) |->
                        RMul(EntryOf(ret.u, ((r - 1) % Len(ret.M)) + 1,
                                     ((r - 1) \div Len(ret.M)) + 1),
                             ret.M[((r - 1) % Len(ret.M)) + 1][j])]]
        /\ ret.adjoint =>
              ret.out.a =
                [j \in 1..NCols(ret.M) |->
                    [r \in 1..(Len(ret.M) * (IF ColumnsOf(ret.u) = 0 THEN 1 ELSE ColumnsOf(ret.u))) |->
                        RMul(EntryOf(ret.u, ((r - 1) % Len(ret.M)) + 1,
                                     ((r - 1) \div Len(ret.M)) + 1),
                             ret.M[((r - 1) % Len(ret.M)) + 1][j])]]

\* v omitted, adjoint, two fields and a map that is not square: the result
\* has the map's columns for rows and twice its rows for columns
C19_Witness ==
    /\ ret.op = "inner" /\ ret.v = NoneV /\ ret.adjoint
    /\ ColumnsOf(ret.u) = 2
    /\ Len(ret.M) # NCols(ret.M)
    /\ ret.out.t = "sparse"
    /\ Len(ret.out.a) = NCols(ret.M)
    /\ NCols(ret.out.a) = 2 * Len(ret.M)

\* entry i of avg.T (vol * prop): the sum over the cells c of
\* avg[c, i] * vol[c] * prop[c]
NodeWeight(prop, i) ==
    RSum([c \in 1..n_cells |-> RMul(aveN2CC[c][i], RMul(cell_volumes[c], prop[c]))],
         n_cells)

\* C20: for the property's current array prop, Mcc<Prop> is diagonal(vol *
\* prop), Mcc<Prop>I diagonal(1 / (vol * prop)), Mn<Prop> diagonal(avg.T (vol
\* * prop)) and Mn<Prop>I diagonal(1 / (avg.T (vol * prop)))
C20_ConstructionRule ==
    (ret.op = "read" /\ ret.prop # "" /\ ret.out # ErrorV
        /\ ret.slot[1] \in {"_Mcc_", "_MccI_", "_Mn_", "_MnI_"}) =>
        /\ ret.out.t = "sparse"
        /\ Prop(ret.prop).ok
        /\ ret.slot[1] = "_Mcc_" =>
              ret.out.a = [i \in 1..n_cells |-> [j \in 1..n_cells |->
                  IF i = j THEN RMul(cell_volumes[i], Prop(ret.prop).v[i]) ELSE R(0)]]
        /\ ret.slot[1] = "_MccI_" =>
              ret.out.a = [i \in 1..n_cells |-> [j \in 1..n_cells |->
                  IF i = j THEN RInv(RMul(cell_volumes[i], Prop(ret.prop).v[i]))
                  ELSE R(0)]]
        /\ ret.slot[1] = "_Mn_" =>
              ret.out.a = [i \in 1..n_nodes |-> [j \in 1..n_nodes |->
                  IF i = j THEN NodeWeight(Prop(ret.prop).v, i) ELSE R(0)]]
        /\ ret.slot[1] = "_MnI_" =>
              ret.out.a = [i \in 1..n_nodes |-> [j \in 1..n_nodes |->
                  IF i = j THEN RInv(NodeWeight(Prop(ret.prop).v, i)) ELSE R(0)]]

\* the inverse node matrix was built from an array assigned after the
\* construction; its entries differ from node to node
C20_Witness ==
    /\ ret.op = "read" /\ ret.slot = Stash("_MnI_", "Sigma") /\ ret.built
    /\ val["sigma"] = ArrayB(n_cells)
    /\ ret.out.t = "sparse"
    /\ ret.out.a[1][1] # ret.out.a[2][2]


\* the example: four cells of unit volume, the identity map, u = [1, 1, 1, 1]
\* and v = [1, 0, 0, 0], handed to the function with sp.diags(vol) * propDeriv
UnitExample ==
    inner_mat_mul_op(MatMul(Diags(Ones(4)), Diags(Ones(4))),
                     Array1(Ones(4)), Array1(<<R(1), R(0), R(0), R(0)>>), FALSE)

\* C21: without adjoint, for one field u (1-D or of one column) and one
\* direction v, Mcc<Prop>Deriv(u, v) is the 1-D array u * (diag(vol) D v), D
\* the derivative of the property's map; for unit volumes, the identity map,
\* u = [1, 1, 1, 1] and v = [1, 0, 0, 0] that is [1, 0, 0, 0]
C21_CellCentreDerivative ==
    /\ (ret.op = "value" /\ ret.slot[1] = "_Mcc_" /\ ~ret.adjoint
           /\ ret.v.t = "ndarray") =>
          /\ ret.out.t = "ndarray" /\ ret.out.nd = 1
          /\ ret.out.a = [i \in 1..n_cells |->
                RMul(EntryOf(ret.u, i, 1),
                     RSum([j \in 1..n_cells |->
                             RMul(RMul(cell_volumes[i], MapMatrix(Lower(ret.slot[2]))[i][j]),
                                  ret.v.a[j])],
                          n_cells))]
    /\ UnitExample = Array1(<<R(1), R(0), R(0), R(0)>>)

\* Mcc<Prop>Deriv returned [1 * 1 * 1, 2 * 2 * 2] for u = v = [1, 2] on the
\* cells of volume 1 and 2
C21_Witness ==
    /\ ret.op = "value" /\ ret.slot[1] = "_Mcc_" /\ ~ret.adjoint
    /\ ret.u = Array1(ArrayA(n_cells)) /\ ret.v = Array1(ArrayA(n_cells))
    /\ ret.out = Array1([i \in 1..n_cells |-> R(i * i * i)])


\* the stash name of the inverse that goes with a forward matrix
InverseOf(slot) ==
    CASE slot = MeSigmaTauKappaName -> MeSigmaTauKappaIName
      [] slot[1] = "_Mcc_" -> Stash("_MccI_", slot[2])
      [] slot[1] = "_Mn_" -> Stash("_MnI_", slot[2])
      [] slot[1] = "_Mf_" -> Stash("_MfI_", slot[2])
      [] slot[1] = "_Me_" -> Stash("_MeI_", slot[2])
      [] slot[1] = "__Mf_" -> Stash("__MfI_", slot[2])
      [] slot[1] = "__Me_" -> Stash("__MeI_", slot[2])

\* C22: in every state, a forward matrix that was read (of any support, the
\* composite's included), times the inverse matrix read for the same property
\* in that state, is the identity
C22_InverseIdentity ==
    (ret.op = "read" /\ ret.out # ErrorV /\ SlotKind(ret.slot) = "forward") =>
        /\ ReadNow(cache, InverseOf(ret.slot)).ok
        /\ MatMul(ret.out.a, ReadNow(cache, InverseOf(ret.slot)).out)
             = Diags(Ones(Len(ret.out.a)))


\* C23: for a property that was never given a value (no array, no map, none
\* on its reciprocal partner) a read of a mass matrix or of an inverse, the
\* composite's included, and a call of a derivative with u and v not Zero
\* raise an error: no matrix and no Zero comes back
C23_MissingDependency ==
    /\ (ret.op = "read" /\ ret.prop # "" /\ ~Prop(ret.prop).ok) => ret.out = ErrorV
    /\ (ret.op = "read" /\ ret.prop = ""
           /\ \E p \in {"sigma", "tau", "kappa"} : ~Prop(p).ok) => ret.out = ErrorV
    /\ (ret.op = "deriv" /\ ret.prop # "" /\ ret.live /\ ~Prop(ret.prop).ok)
          => ret.out.t = "error"


\* the pairs of which both members are given a map
Conflicts(maps) ==
    {p \in DOMAIN maps : HasReciprocal(p) /\ maps[p] # NoMap /\ maps[Reciprocal(p)] # NoMap}

\* C24: no state has maps on both members of a reciprocal pair (sigma and
\* rho, mu and mui, kappa and kappai): a constructor that is handed both
\* raises, and so does the assignment of a map to the partner of a mapped
\* property
C24_ReciprocalConflict ==
    /\ \A p \in PropsOf(cls) :
          HasReciprocal(p) => pmap[p] = NoMap \/ pmap[Reciprocal(p)] = NoMap
    /\ ret.op = "new" => Conflicts(ret.maps) = {}
    /\ ret.op = "failed" => Conflicts(ret.maps) # {}

\* on an object built with kappaiMap, the assignment of kappaMap raised and
\* kappa has no map
C24_Witness ==
    /\ ret.op = "setmap" /\ ret.out = ErrorV /\ ret.prop = "kappa"
    /\ pmap["kappa"] = NoMap /\ pmap["kappai"] # NoMap


\* C25: a call with k > 1 fields and j > 1 directions, j different from k,
\* raises an error: it returns no array
C25_ShapeMismatch ==
    (/\ ret.op = "inner" /\ ret.v.t = "ndarray"
     /\ ColumnsOf(ret.u) > 1 /\ ColumnsOf(ret.v) > 1
     /\ ColumnsOf(ret.u) # ColumnsOf(ret.v)) => ret.out.t = "error"


\* the stash name of the derivative map that the derivative method of `slot`
\* uses
DerivMapOf(slot) == StashDeriv(ForwardOf(slot)[1], ForwardOf(slot)[2])

\* C26: a derivative call that finds its derivative map stashed builds none
\* and leaves the stashed one as it is, whatever u, v and adjoint; a call
\* builds the map only when none is stashed, which is so at the first call
\* and after an assignment deleted it
C26_DerivativeMapBuiltOnce ==
    [][ret'.op = "value" =>
          /\ DerivMapOf(ret'.slot) \in DOMAIN cache =>
                /\ ~ret'.built
                /\ DerivMapOf(ret'.slot) \in DOMAIN cache'
                /\ cache'[DerivMapOf(ret'.slot)] = cache[DerivMapOf(ret'.slot)]
          /\ ret'.built =>
                /\ DerivMapOf(ret'.slot) \notin DOMAIN cache
                /\ DerivMapOf(ret'.slot) \in DOMAIN cache']_vars

\* an adjoint call without v returned a matrix made from the derivative map
\* that an earlier call had stashed
C26_Witness ==
    /\ ret.op = "value" /\ ~ret.built
    /\ ret.adjoint /\ ret.v = NoneV /\ ret.out.t = "sparse"
    /\ DerivMapOf(ret.slot) \in DOMAIN cache

\* the properties whose assignment has to clear the stash entry s: the one
\* in its name, or the three a composite matrix is made from
OwnersOf(s) ==
    IF s \in CompositeNames THEN {"sigma", "tau", "kappa"} ELSE {Lower(s[2])}

\* C27: whatever the getters and the derivative methods have stashed (a
\* forward matrix, an inverse, a derivative map, a composite matrix), an
\* assignment to the property it belongs to deletes it: no stashed entry
\* lies outside the clear list of its owner.
C27_RegistrationComplete ==
    \A s \in DOMAIN cache :
        \A p \in OwnersOf(s) : s \notin DOMAIN class_setattr(cache, p)

\* the derivative of the composite inverse has stashed the three forward
\* matrices, the composite inverse and the derivative map of _MeTau
C27_Witness ==
    /\ ret.op = "value"
    /\ {Stash("_Me_", "Sigma"), Stash("__Me_", "Tau"), Stash("__Me_", "Kappa"),
        MeSigmaTauKappaIName, StashDeriv("__Me_", "Tau")} \subseteq DOMAIN cache

(***************************************************************************)
(* The sources.                                                            *)
(***************************************************************************)
\* values float() does not convert, and values it converts to zero
NotConvertible == {PyStr("abc"), PyNone}
ZeroCurrents == {PyFloat(R(0)), PyInt(0), PyStr("0.0")}

\* C28: the current of a source is a float and is not zero; assigning a
\* value that float() does not convert, or a zero, raises TypeError and the
\* source keeps the current it had; any other value is stored as a float.
C28_CurrentNonZeroFloat ==
    /\ src.made => src.current.t = "float" /\ src.current.num # R(0)
    /\ ret.op = "current" =>
          IF ret.arg \in NotConvertible \cup ZeroCurrents
          THEN ret.exc = "TypeError" /\ src = ret.before
          ELSE ret.exc = "" /\ src.current.num = (IF ret.arg.t = "str" THEN R(3)
                                                   ELSE ret.arg.num)

\* the integer 0 was refused on a source whose current had been set to 2.5
C28_Witness ==
    /\ ret.op = "current" /\ ret.arg = PyInt(0) /\ ret.exc = "TypeError"
    /\ src.current = PyFloat(<<5, 2>>)

\* the _rxOrder of a list of receivers: each uid with its position
OrderOf(l) == {<<uid(l[k]), k - 1>> : k \in 1..Len(l)}

\* some receiver (or other item) occurs twice in l
Repeats(l) == \E i, j \in 1..Len(l) : i < j /\ l[i] = l[j]

\* C29: assigning a single receiver stores the list of that receiver, and
\* assigning a list of pairwise distinct receivers stores the list; _rxOrder
\* then maps the uid of each receiver to its position.  A value that is
\* neither raises TypeError, a list with a repeated item fails the
\* assertion, and both leave _receiver_list and _rxOrder as they were.
C29_ReceiverList ==
    ret.op = "receiver_list" =>
        /\ ret.arg.t \notin {"BaseRx", "list"} =>
              ret.exc = "TypeError" /\ src = ret.before
        /\ ret.arg.t = "list" /\ Repeats(ret.arg.items) =>
              ret.exc = "AssertionError" /\ src = ret.before
        /\ \/ ret.arg.t = "BaseRx"
           \/ /\ ret.arg.t = "list" /\ ~Repeats(ret.arg.items)
              /\ \A k \in 1..Len(ret.arg.items) : ret.arg.items[k] \in Receivers
           => /\ ret.exc = ""
              /\ src.receiver_list = ret.arg.items
              /\ src.rxOrder = OrderOf(ret.arg.items)

\* a list that names rx1 twice was refused on a source that holds [rx2, rx1]
C29_Witness ==
    /\ ret.op = "receiver_list" /\ ret.arg = [t |-> "list", items |-> <<"rx1", "rx1">>]
    /\ ret.exc = "AssertionError"
    /\ src.receiver_list = <<"rx2", "rx1">>
    /\ src.rxOrder = {<<"uid-b", 0>>, <<"uid-a", 1>>}

\* lists that are not two locations of one shape
BadLocations == {<<LocA>>, <<LocA, Loc3>>, <<LocScalar, LocB>>, <<LocA, LocB, LocA>>}

\* the two ways of giving the electrodes
ByElectrodes(a) == a.location_a # NoLoc /\ a.location_b # NoLoc /\ a.location = NoLoc
ByLocation(a) == a.location # NoLoc /\ a.location_a = NoLoc

\* C30: Dipole(...) returns a source only when the electrodes are given in
\* one way, as location_a with location_b or as location.  A removed keyword
\* (locationA, locationB) raises TypeError; without one, location_a without
\* location_b raises ValueError, location_a with location raises ValueError,
\* neither location_a nor location raises AttributeError, and locations that
\* are not two of one shape raise ValueError, at construction (the receivers
\* being acceptable) and at a later assignment; no source is made, and an
\* assignment leaves the source as it was.
C30_DipoleConstruction ==
    /\ ret.op = "Dipole" =>
          LET a == ret.arg
          IN  /\ ret.exc # "" => ~src.made
              /\ ret.exc = "" =>
                    /\ a.kwargs = {} /\ (ByElectrodes(a) \/ ByLocation(a))
                    /\ src.made /\ Len(src.locations) = 2
                    /\ shape(src.locations[1]) = shape(src.locations[2])
              /\ a.kwargs # {} => ret.exc = "TypeError"
              /\ a.kwargs = {} =>
                    /\ a.location_a # NoLoc /\ a.location_b = NoLoc => ret.exc = "ValueError"
                    /\ a.location_a # NoLoc /\ a.location # NoLoc => ret.exc = "ValueError"
                    /\ a.location_a = NoLoc /\ a.location = NoLoc => ret.exc = "AttributeError"
                    /\ /\ ~Repeats(a.receiver_list.items)
                       /\ \/ ByLocation(a) /\ a.location[1] \in BadLocations
                          \/ ByElectrodes(a) /\ a.location_b = <<Loc3>>
                       => ret.exc = "ValueError"
    /\ ret.op = "location" /\ ret.arg \in BadLocations =>
          ret.exc = "ValueError" /\ src = ret.before

\* location_a was given without location_b and no source was made
C30_Witness ==
    /\ ret.op = "Dipole" /\ ret.arg.kwargs = {}
    /\ ret.arg.location_a = <<LocA>> /\ ret.arg.location_b = NoLoc
    /\ ret.exc = "ValueError" /\ ~src.made

(***************************************************************************)
(* What stays in the stash.                                                *)
(***************************************************************************)
\* the clear lists of the reciprocal pair of an electrical or magnetic class
PairLists ==
    IF cls = "Magnetic" THEN clear_on_prop_update("Mu") \cup clear_on_prop_update("Mui")
    ELSE clear_on_prop_update("Sigma") \cup clear_on_prop_update("Rho")

\* C31: in BaseElectricalPDESimulation (BaseMagneticPDESimulation),
\* deleteTheseOnModelUpdate holds the whole clear lists of sigma and rho (mu
\* and mui) when one of the two maps is set and none of their names when
\* neither is; an assignment to the model then leaves no entry of the pair
\* in the first case and deletes nothing in the second.
C31_ModelUpdateList ==
    cls \in {"Electrical", "Magnetic"} =>
        IF \E p \in PropsOf(cls) : pmap[p] # NoMap
        THEN /\ PairLists \subseteq deleteTheseOnModelUpdate
             /\ ret.op = "model" => DOMAIN cache \cap PairLists = {}
        ELSE /\ deleteTheseOnModelUpdate \cap PairLists = {}
             /\ ret.op = "model" => ret.cleared = {}

\* with rhoMap set, assigning the model deleted a stashed matrix of sigma
C31_Witness ==
    /\ cls = "Electrical" /\ pmap["rho"] # NoMap /\ pmap["sigma"] = NoMap
    /\ ret.op = "model" /\ Stash("_Mcc_", "Sigma") \in ret.cleared

\* C32: a derivative call that returns Zero (the property has no map, or u
\* or v is Zero) leaves the stash as it was: no derivative map is stored and
\* the derivative of an inverse neither builds nor stores the inverse.
C32_ZeroLeavesStash ==
    [][(ret'.op = "deriv" /\ ret'.out.t = "Zero") => cache' = cache]_vars

\* a call on a mapped property returned Zero for a Zero argument, with a
\* derivative map stashed by an earlier call
C32_Witness ==
    /\ ret.op = "deriv" /\ ret.out.t = "Zero" /\ ~ret.live
    /\ ret.prop # "" /\ pmap[ret.prop] # NoMap
    /\ \E s \in DOMAIN cache : s[3] = "_deriv"

\* C33: an assignment to a property deletes the stashed entries of that
\* property and of its reciprocal partner and, the composite entries apart,
\* no entry of any other property.
C33_OwnSlotsOnly ==
    ret.op = "set" =>
        /\ \A q \in Partners(ret.prop) : SlotsOf(cache, q) = {}
        /\ \A s \in ret.cleared \ CompositeNames : Lower(s[2]) \in Partners(ret.prop)

\* C33, as the classes do it: an assignment to a property deletes the
\* entries of that property and of its partner; in the electrical and the
\* magnetic class it deletes nothing else, and in the conductance class an
\* assignment to any of sigma, rho, tau, kappa, kappai deletes the entries of
\* all five, so that nothing is left stashed.
C33_SlotsClearedByClass ==
    ret.op = "set" =>
        /\ \A q \in Partners(ret.prop) : SlotsOf(cache, q) = {}
        /\ cls # "Conductance" =>
              \A s \in ret.cleared : Lower(s[2]) \in Partners(ret.prop)
        /\ cls = "Conductance" => DOMAIN cache = {}

\* an assignment to tau deleted the stashed cell-centre matrix of sigma
C33_Witness ==
    /\ cls = "Conductance" /\ ret.op = "set" /\ ret.prop = "tau"
    /\ Stash("_Mcc_", "Sigma") \in ret.cleared

\* C34: nothing is ever stashed under __MeSigmaTauKappaDeriv, the name the
\* clear lists hold; what a composite derivative returns is made, at each
\* call, from the stashed derivative map of _MeTau and the call's own
\* arguments.
C34_CompositeDerivNeverStashed ==
    /\ MeSigmaTauKappaDerivName \notin DOMAIN cache
    /\ (/\ ret.op = "value"
        /\ ret.slot \in {MeSigmaTauKappaName, MeSigmaTauKappaIName}
        /\ ret.out.t \in {"ndarray", "sparse"}) =>
          /\ StashDeriv("__Me_", "Tau") \in DOMAIN cache
          /\ ret.out = inner_mat_mul_op(
                         cache[StashDeriv("__Me_", "Tau")],
                         IF ret.slot = MeSigmaTauKappaName THEN ret.u
                         ELSE SpMul(cache[MeSigmaTauKappaIName],
                                    SpMul(cache[MeSigmaTauKappaIName], Negate(ret.u))),
                         ret.v, ret.adjoint)

\* _MeSigmaTauKappaDeriv returned an array on a call that found the
\* derivative map of _MeTau stashed by an earlier call
C34_Witness ==
    /\ ret.op = "value" /\ ret.slot = MeSigmaTauKappaName
    /\ ret.out.t = "ndarray" /\ ~ret.built
    /\ DOMAIN cache = {StashDeriv("__Me_", "Tau")}

(***************************************************************************)
(* The matrices of BasePDESimulation itself.                               *)
(***************************************************************************)
\* C35: a property-independent matrix (_Mcc, _Mn, _Mf, _Me, _MccI, _MnI, _MfI,
\* _MeI) is built by the read that finds its slot empty and by no other, and
\* once stashed it stays stashed with the same object across every step:
\* no property write and no model assignment of the three classes removes it
C35_BaseMatricesKept ==
    [][/\ \A s \in BaseNames :
             s \in DOMAIN cache => s \in DOMAIN cache' /\ cache'[s] = cache[s]
       /\ (ret'.op = "read" /\ ret'.slot \in BaseNames) =>
             /\ ret'.built <=> ret'.slot \notin DOMAIN cache
             /\ ret'.slot \in DOMAIN cache'
             /\ ret'.out = Sparse(cache'[ret'.slot])
       /\ BaseNames \cap deleteTheseOnModelUpdate = {}]_vars

\* a property write has just cleared a property's slot while a base matrix
\* stays in the stash
C35_Witness ==
    /\ ret.op = "set"
    /\ ret.cleared # {}
    /\ DOMAIN cache \cap BaseNames # {}

(***************************************************************************)
(* A read that raises.                                                     *)
(***************************************************************************)
\* the last call raised
RaisedNow == ret.op \in {"read", "deriv"} /\ ret.out = ErrorV

\* a read of a property's matrix that follows a write of that property builds
\* the matrix, stores it and returns the stored object
ReadAfterWrite ==
    (ret.op = "set" /\ ret'.op = "read" /\ ret'.prop = ret.prop) =>
        /\ ret'.out # ErrorV
        /\ ret'.built
        /\ ret'.slot \in DOMAIN cache'
        /\ ret'.out = Sparse(cache'[ret'.slot])

\* the slots the composite getters read before they add
Contributors == {Stash("_Me_", "Sigma"), Stash("__Me_", "Tau"), Stash("__Me_", "Kappa")}

\* C36 as stated: a mass matrix, inverse or derivative map whose building
\* raises leaves the whole stash as it was, and a read after a valid value is
\* assigned builds and stores the matrix
C36_RaiseChangesNothing ==
    [][/\ RaisedNow' => cache' = cache
       /\ ReadAfterWrite]_vars

\* C36: a read or a derivative call that raises leaves the requested slot
\* unset and every stashed object in place; a single-property getter or
\* derivative leaves the whole stash as it was, and a composite getter or
\* derivative adds at most the contributors it read before the one that
\* raised.  A read after a valid value is assigned builds and stores the matrix
C36_RaiseKeepsSlotUnset ==
    [][/\ RaisedNow' =>
             /\ ret'.op = "read" => ret'.slot \notin DOMAIN cache'
             /\ \A s \in DOMAIN cache : s \in DOMAIN cache' /\ cache'[s] = cache[s]
             /\ cache' # cache =>
                   /\ ret'.prop = ""
                   /\ DOMAIN cache' \ DOMAIN cache \subseteq Contributors
                   /\ \A s \in DOMAIN cache' \ DOMAIN cache :
                         cache'[s] = Getter(<<>>, s).out
       /\ ReadAfterWrite]_vars

\* the composite getter has just raised for want of tau, and MeSigma, read
\* on the way, is in the stash
C36_Witness ==
    /\ RaisedNow
    /\ ret.slot = MeSigmaTauKappaName
    /\ val["tau"] = None
    /\ Stash("_Me_", "Sigma") \in DOMAIN cache

(***************************************************************************)
(* One name per matrix.                                                    *)
(***************************************************************************)
\* the attribute name a stash name stands for: the f-string, put together
Name(s) == s[1] \o s[2] \o s[3]

\* every stash name of the class: the getters', the derivative maps', the
\* composite ones and BasePDESimulation's
ClassNames ==
    DerivSlots
    \cup {StashDeriv(s[1], s[2]) : s \in {d \in DerivSlots : SlotKind(d) = "forward" /\ d[2] # ""}}
    \cup BaseNames

\* C37: within a class (fixed when the simulation is built, so compared on the
\* first step) the stash names of distinct (property, support, kind)
\* combinations are different attribute names, and a read that returns a
\* matrix returns the object of its own slot (built by this read if and only
\* if the slot was empty) and leaves every stashed object where it was
C37_OneNamePerMatrix ==
    [][/\ ret.op = "init" =>
             Cardinality({Name(s) : s \in ClassNames}) = Cardinality(ClassNames)
       /\ (ret'.op = "read" /\ ret'.out # ErrorV) =>
             /\ ret'.slot \in DOMAIN cache'
             /\ ret'.out = Sparse(cache'[ret'.slot])
             /\ ret'.built <=> ret'.slot \notin DOMAIN cache
             /\ \A s \in DOMAIN cache : s \in DOMAIN cache' /\ cache'[s] = cache[s]]_vars

\* _MeKappa was read from its own slot while _Me_Sigma, __Me_Tau and the
\* composite matrix are stashed beside it
C37_Witness ==
    /\ ret.op = "read"
    /\ ret.slot = Stash("__Me_", "Kappa")
    /\ ~ret.built
    /\ {Stash("_Me_", "Sigma"), Stash("__Me_", "Tau"), MeSigmaTauKappaName} \subseteq DOMAIN cache

(***************************************************************************)
(* The source term is computed once.                                       *)
(***************************************************************************)
\* C38: once _q is stored (not None) no step changes it - neither an eval
\* nor the setters of current and location - and every eval returns that
\* stored array without raising, whatever simulation it is given
C38_EvalMemoized ==
    [][/\ src.q # NoneV => src'.q = src.q
       /\ (ret'.op = "eval" /\ src.q # NoneV) =>
             /\ ret'.exc = ""
             /\ ret'.out = src.q]_vars

\* an eval of a dipole has returned the stored term although the dipole's
\* current or location, or the simulation, is no longer the one the term
\* was computed from
C38_Witness ==
    /\ ret.op = "eval"
    /\ src.type = "Dipole"
    /\ src.q # NoneV
    /\ ret.out = src.q
    /\ ret.out # eval([src EXCEPT !.q = NoneV], ret.arg, TRUE).out

====
